---------------------------- MODULE Spec2Model ----------------------------
(***************************************************************************)
(* State-machine model of the Synq DBT-44 Companion module (src/index.js): *)
(* the UDP/OSC session of class SynqDbt44Instance, its receive-buffer      *)
(* reassembly, its state store and the action callbacks that mutate it.    *)
(*                                                                         *)
(* Conventions.                                                            *)
(*  - A JS string is the sequence of its character codes ("/ping" is       *)
(*    <<47,112,105,110,103>>); a Buffer is the sequence of its bytes.      *)
(*  - A JS number is an integer count of hundredths (-2.0 is -200), or NaN.*)
(*  - A JS value is a record tagged by t: "undefined", "boolean", "number",*)
(*    "NaN" or "string".                                                   *)
(***************************************************************************)
EXTENDS Integers, Sequences, FiniteSets, Bags, TLC

(***************************************************************************)
(* Bounds of the model.                                                    *)
(***************************************************************************)
\* frames put on the wire in the reassembly specification
MaxFrames == 2
\* DNS lookups that may be pending at the same time
MaxLookups == 2
\* delayed sync timers (setTimeout) that may be pending at the same time
MaxTimers == 2
\* bytes that may be stuck in the receive buffer when a further whole frame arrives
MaxBacklog == 4

(***************************************************************************)
(* Program constants.                                                      *)
(***************************************************************************)
\* '/ping'
OSC_PATH_PING == <<47, 112, 105, 110, 103>>
\* '/sync'
OSC_PATH_SYNC == <<47, 115, 121, 110, 99>>
\* lower gain bound in dB: Math.max(-120, ...)
GAIN_MIN_DB == -120
\* upper gain bound in dB: Math.min(10, ...)
GAIN_MAX_DB == 10
\* step_preset choices '3', '-3' and 'custom'
STEP_PRESET_UP == <<51>>
STEP_PRESET_DOWN == <<45, 51>>
STEP_PRESET_CUSTOM == <<99, 117, 115, 116, 111, 109>>
\* the unit has 8 inputs and 8 outputs
NUM_INPUTS == 8
NUM_OUTPUTS == 8
\* default ports of the configuration fields
DEFAULT_TARGET_PORT == 9000
DEFAULT_FEEDBACK_PORT == 9001

NULL == [t |-> "null"]

(***************************************************************************)
(* JS values.                                                              *)
(***************************************************************************)
Undefined == [t |-> "undefined"]
NaN == [t |-> "NaN"]
Bool(b) == [t |-> "boolean", b |-> b]
Num(n) == [t |-> "number", n |-> n]
Str(s) == [t |-> "string", s |-> s]
\* a whole number of dB as a JS number
DB(x) == Num(x * 100)

IsNum(v) == v.t = "number"
IsStr(v) == v.t = "string"

(***************************************************************************)
(* Strings.                                                                *)
(***************************************************************************)
SLASH == 47
UNDERSCORE == 95

RECURSIVE Cat(_)
Cat(ss) == IF ss = <<>> THEN <<>> ELSE Head(ss) \o Cat(Tail(ss))

\* s.slice(from, to), 0-based, to exclusive
Slice(s, from, to) == IF to <= from THEN <<>> ELSE SubSeq(s, from + 1, to)

\* s.endsWith(suffix)
EndsWith(s, suffix) ==
    /\ Len(suffix) <= Len(s)
    /\ Slice(s, Len(s) - Len(suffix), Len(s)) = suffix

\* s.startsWith('/')
StartsWithSlash(s) == Len(s) > 0 /\ s[1] = SLASH

IsWhite(c) == c \in {9, 10, 11, 12, 13, 32}

RECURSIVE TrimStart(_)
TrimStart(s) == IF s # <<>> /\ IsWhite(Head(s)) THEN TrimStart(Tail(s)) ELSE s

RECURSIVE TrimEnd(_)
TrimEnd(s) ==
    IF s # <<>> /\ IsWhite(s[Len(s)]) THEN TrimEnd(SubSeq(s, 1, Len(s) - 1)) ELSE s

\* String.prototype.trim
Trim(s) == TrimEnd(TrimStart(s))

IsDigit(c) == c \in 48..57

\* decimal digits of a natural number
RECURSIVE Digits(_)
Digits(n) == IF n < 10 THEN <<48 + n>> ELSE Digits(n \div 10) \o <<48 + (n % 10)>>

\* value of a run of decimal digits
RECURSIVE DigitsValue(_)
DigitsValue(ds) ==
    IF ds = <<>> THEN 0 ELSE DigitsValue(SubSeq(ds, 1, Len(ds) - 1)) * 10 + (ds[Len(ds)] - 48)

\* the longest prefix of s made of digits
RECURSIVE DigitPrefix(_)
DigitPrefix(s) ==
    IF s # <<>> /\ IsDigit(Head(s)) THEN <<Head(s)>> \o DigitPrefix(Tail(s)) ELSE <<>>

Abs(n) == IF n < 0 THEN -n ELSE n

(***************************************************************************)
(* Number conversions of the JS runtime, as used by index.js.              *)
(***************************************************************************)
\* String(num) for a number that is a whole number of units (here 0 or 1)
NumberToString(n) == (IF n < 0 THEN <<45>> ELSE <<>>) \o Digits(Abs(n) \div 100)

\* Math.round(num * 10): round half up, result counted in tenths
RoundTenths(n) == (n + 5) \div 10

\* (tenths / 10).toFixed(1); -0 prints as "0.0"
ToFixed1(tenths) ==
    (IF tenths < 0 THEN <<45>> ELSE <<>>)
        \o Digits(Abs(tenths) \div 10) \o <<46>> \o Digits(Abs(tenths) % 10)

\* the magnitude (hundredths) of an unsigned decimal literal prefix of s, or -1
\* when s starts with no digit; digits past the second decimal are dropped
UnsignedPrefix(s) ==
    LET ip == DigitPrefix(s)
        rest == SubSeq(s, Len(ip) + 1, Len(s))
        fp == IF rest # <<>> /\ Head(rest) = 46 THEN DigitPrefix(Tail(rest)) ELSE <<>>
        f2 == SubSeq(fp \o <<48, 48>>, 1, 2)
    IN  IF ip = <<>> /\ fp = <<>> THEN -1
        ELSE DigitsValue(ip) * 100 + DigitsValue(f2)

\* parseFloat(v): v is converted to a string first; a boolean or undefined
\* gives "true"/"false"/"undefined" and so NaN
parseFloat(v) ==
    IF IsNum(v) THEN v
    ELSE IF ~IsStr(v) THEN NaN
    ELSE LET s == TrimStart(v.s)
             neg == s # <<>> /\ Head(s) = 45
             body == IF s # <<>> /\ Head(s) \in {43, 45} THEN Tail(s) ELSE s
             mag == UnsignedPrefix(body)
         IN  IF mag < 0 THEN NaN ELSE Num(IF neg THEN -mag ELSE mag)

\* Number(v): the whole string must be a numeric literal; '' is 0
ToNumber(v) ==
    IF IsNum(v) THEN v
    ELSE IF v.t = "boolean" THEN (IF v.b THEN DB(1) ELSE DB(0))
    ELSE IF ~IsStr(v) THEN NaN
    ELSE LET s == Trim(v.s)
             neg == s # <<>> /\ Head(s) = 45
             body == IF s # <<>> /\ Head(s) \in {43, 45} THEN Tail(s) ELSE s
             ip == DigitPrefix(body)
             rest == SubSeq(body, Len(ip) + 1, Len(body))
             fp == IF rest # <<>> /\ Head(rest) = 46 THEN DigitPrefix(Tail(rest)) ELSE <<>>
             used == Len(ip) + (IF rest # <<>> /\ Head(rest) = 46 THEN 1 + Len(fp) ELSE 0)
             mag == UnsignedPrefix(body)
         IN  IF s = <<>> THEN DB(0)
             ELSE IF mag < 0 \/ used # Len(body) THEN NaN
             ELSE Num(IF neg THEN -mag ELSE mag)

\* String(value) of a value that is not a finite number
JsString(v) ==
    IF IsStr(v) THEN v.s
    ELSE IF v.t = "NaN" THEN <<78, 97, 78>>
    ELSE IF v.t = "undefined" THEN <<117, 110, 100, 101, 102, 105, 110, 101, 100>>
    ELSE IF v.t = "boolean" THEN
        (IF v.b THEN <<116, 114, 117, 101>> ELSE <<102, 97, 108, 115, 101>>)
    ELSE NumberToString(v.n)

(***************************************************************************)
(* Address mapper.                                                         *)
(***************************************************************************)
\* (config.device_name || '').trim()
deviceName(cfg) == Trim(cfg.device_name)

\* an oscPath that appends the configured name as it is, blanks included
oscPath_untrimmed(cfg, pathWithoutName) ==
    [t |-> "string", s |-> pathWithoutName \o <<47>> \o cfg.device_name]

\* oscPath(pathWithoutName): '<path>/<device_name>', or null without a name
oscPath(cfg, pathWithoutName) ==
    LET name == deviceName(cfg)
        base == IF StartsWithSlash(pathWithoutName) THEN pathWithoutName
                ELSE <<SLASH>> \o pathWithoutName
    IN  IF name = <<>> THEN NULL ELSE Str(base \o <<SLASH>> \o name)

\* s.replace(/^\//, '')
StripLeadingSlash(s) == IF StartsWithSlash(s) THEN Tail(s) ELSE s

\* s.replace(/\//g, '_')
SlashesToUnderscores(s) == [i \in 1..Len(s) |-> IF s[i] = SLASH THEN UNDERSCORE ELSE s[i]]

\* pathToVariableId(path): the variable id as a string ('' is falsy)
pathToVariableId(cfg, path) ==
    LET name == deviceName(cfg)
        withoutName == IF name # <<>> /\ EndsWith(path, <<SLASH>> \o name)
                       THEN Slice(path, 0, Len(path) - Len(name) - 1)
                       ELSE path
    IN  SlashesToUnderscores(StripLeadingSlash(withoutName))

(***************************************************************************)
(* State store.                                                            *)
(***************************************************************************)
\* a format without the special cases: every number with one decimal
formatSyncValue_fixed1(value) ==
    IF value.t = "number" THEN ToFixed1(RoundTenths(value.n)) ELSE JsString(value)

\* formatSyncValue(value): the string kept in syncState
formatSyncValue(value) ==
    IF value = Bool(TRUE) THEN <<49>>
    ELSE IF value = Bool(FALSE) THEN <<48>>
    ELSE LET num == ToNumber(value)
         IN  IF IsNum(num) THEN
                 IF num.n = 0 \/ num.n = 100 THEN NumberToString(num.n)
                 ELSE ToFixed1(RoundTenths(num.n))
             ELSE JsString(value)

\* this.syncState[key]: the stored string, or undefined
stored(syncSt, key) == IF key \in DOMAIN syncSt THEN Str(syncSt[key]) ELSE Undefined

\* whether syncVariableDefs.some((d) => d.variableId === variableId)
isRegistered(defs, variableId) == \E i \in 1..Len(defs) : defs[i] = variableId

\* a store that registers the id on every call
storeSyncValue_pushAlways(st, variableId, value) ==
    IF variableId = <<>> THEN st
    ELSE [syncState |-> (variableId :> formatSyncValue(value)) @@ st.syncState,
          syncVariableDefs |-> Append(st.syncVariableDefs, variableId)]

\* a store that keeps the value a key already has
storeSyncValue_keepFirst(st, variableId, value) ==
    IF variableId = <<>> \/ variableId \in DOMAIN st.syncState THEN st
    ELSE [syncState |-> (variableId :> formatSyncValue(value)) @@ st.syncState,
          syncVariableDefs |-> Append(st.syncVariableDefs, variableId)]

\* storeSyncValue(variableId, value) on st = [syncState, syncVariableDefs]
storeSyncValue(st, variableId, value) ==
    IF variableId = <<>> THEN st
    ELSE [syncState |-> (variableId :> formatSyncValue(value)) @@ st.syncState,
          syncVariableDefs |->
              IF isRegistered(st.syncVariableDefs, variableId) THEN st.syncVariableDefs
              ELSE Append(st.syncVariableDefs, variableId)]

\* the variable id 'device_name'
DEVICE_NAME_ID == <<100, 101, 118, 105, 99, 101, 95, 110, 97, 109, 101>>

\* applySyncVariables() / updateVariables(): setVariableDefinitions(defs) replaces
\* the published definitions, setVariableValues(values) overwrites the given values
applySyncVariables(pub, cfg, st) ==
    [defs |-> <<DEVICE_NAME_ID>> \o st.syncVariableDefs,
     values |-> (DEVICE_NAME_ID :> deviceName(cfg)) @@ st.syncState @@ pub.values]

(***************************************************************************)
(* OSC codec (package 'osc', as called by index.js).                       *)
(***************************************************************************)
Ceil4(n) == ((n + 3) \div 4) * 4

Zeros(n) == [i \in 1..n |-> 0]

\* an OSC string: the characters, a null, padded to a 4-byte boundary
oscWriteString(s) == s \o Zeros(Ceil4(Len(s) + 1) - Len(s))

\* IEEE-754 single-precision encodings of the gains the model puts on the wire
Float32Table ==
    { <<-200, <<192, 0, 0, 0>>>>, <<-12000, <<194, 240, 0, 0>>>>,
      <<0, <<0, 0, 0, 0>>>>, <<100, <<63, 128, 0, 0>>>>,
      <<4, <<61, 35, 215, 10>>>>, <<96, <<63, 117, 194, 143>>>>,
      <<2000, <<65, 160, 0, 0>>>>, <<-500, <<192, 160, 0, 0>>>> }

oscWriteFloat32(n) == (CHOOSE e \in Float32Table : e[1] = n)[2]

\* getFloat32 of 4 bytes; a bit pattern outside the table is no value the model sends
oscReadFloat32(b) ==
    IF \E e \in Float32Table : e[2] = b
    THEN Num((CHOOSE e \in Float32Table : e[2] = b)[1])
    ELSE NaN

\* the type tag osc.writePacket infers for a raw value (metadata: false)
oscInferType(v) ==
    IF v.t = "boolean" THEN (IF v.b THEN "T" ELSE "F")
    ELSE IF IsStr(v) THEN "s"
    ELSE "f"

TagChar(type) == CASE type = "f" -> 102 [] type = "s" -> 115 [] type = "T" -> 84 [] type = "F" -> 70

\* the payload bytes of one argument
oscWriteArg(a) ==
    CASE a.type = "f" -> IF IsNum(a.value) THEN oscWriteFloat32(a.value.n) ELSE <<127, 192, 0, 0>>
      [] a.type = "s" -> oscWriteString(a.value.s)
      [] OTHER -> <<>>

\* osc.writePacket({address, args}, {metadata: true})
oscWritePacket(address, args) ==
    oscWriteString(address)
        \o oscWriteString(<<44>> \o [i \in 1..Len(args) |-> TagChar(args[i].type)])
        \o Cat([i \in 1..Len(args) |-> oscWriteArg(args[i])])

\* osc.writeInt32 of a size
oscWriteInt32(n) ==
    <<(n \div 16777216) % 256, (n \div 65536) % 256, (n \div 256) % 256, n % 256>>

\* '#bundle'
BUNDLE_HEADER == <<35, 98, 117, 110, 100, 108, 101>>

\* osc.writePacket of a packet whose arguments carry their types: a message, or
\* a bundle as '#bundle', its time tag, and each packet behind its size
RECURSIVE oscWriteTyped(_)
oscWriteSized(bytes) == oscWriteInt32(Len(bytes)) \o bytes

oscWriteTyped(packet) ==
    IF "address" \in DOMAIN packet THEN oscWritePacket(packet.address, packet.args)
    ELSE oscWriteString(BUNDLE_HEADER) \o packet.timeTag
             \o Cat([i \in 1..Len(packet.packets) |->
                        oscWriteSized(oscWriteTyped(packet.packets[i]))])

\* a packet read without metadata, with the type osc.writePacket infers for
\* each of its arguments
RECURSIVE oscInferTypes(_)
oscInferTypes(packet) ==
    IF "address" \in DOMAIN packet
    THEN [packet EXCEPT !.args = [i \in 1..Len(packet.args) |->
                                     [type |-> oscInferType(packet.args[i]),
                                      value |-> packet.args[i]]]]
    ELSE [packet EXCEPT !.packets = [i \in 1..Len(packet.packets) |->
                                         oscInferTypes(packet.packets[i])]]

\* osc.readString at 0-based offset idx: the characters up to the next null (or
\* the end of the data) and the offset after it, rounded up to a multiple of 4
RECURSIVE ScanString(_, _)
ScanString(buf, idx) ==
    IF idx >= Len(buf) THEN [s |-> <<>>, idx |-> idx]
    ELSE IF buf[idx + 1] = 0 THEN [s |-> <<>>, idx |-> idx + 1]
    ELSE LET r == ScanString(buf, idx + 1) IN [s |-> <<buf[idx + 1]>> \o r.s, idx |-> r.idx]

oscReadString(buf, idx) ==
    LET r == ScanString(buf, idx) IN [s |-> r.s, idx |-> Ceil4(r.idx)]

\* a packet osc.readPacket returns, and its failure (a thrown error)
Packet(address, args) == [ok |-> TRUE, address |-> address, args |-> args]
OscFail == [ok |-> FALSE]

\* osc.readArguments after the type tag string: one argument per tag; reading
\* past the end of the data or an unknown tag throws
RECURSIVE oscReadArgs(_, _, _, _)
oscReadArgs(buf, idx, tags, metadata) ==
    IF tags = <<>> THEN [ok |-> TRUE, args |-> <<>>, idx |-> idx]
    ELSE LET tag == Head(tags)
             one ==
                 CASE tag = 102 ->
                        IF idx + 4 > Len(buf) THEN OscFail
                        ELSE [ok |-> TRUE, type |-> "f",
                              value |-> oscReadFloat32(Slice(buf, idx, idx + 4)), idx |-> idx + 4]
                   [] tag = 115 ->
                        LET r == oscReadString(buf, idx)
                        IN [ok |-> TRUE, type |-> "s", value |-> Str(r.s), idx |-> r.idx]
                   [] tag = 84 -> [ok |-> TRUE, type |-> "T", value |-> Bool(TRUE), idx |-> idx]
                   [] tag = 70 -> [ok |-> TRUE, type |-> "F", value |-> Bool(FALSE), idx |-> idx]
                   [] OTHER -> OscFail
         IN  IF ~one.ok THEN OscFail
             ELSE LET rest == oscReadArgs(buf, one.idx, Tail(tags), metadata)
                      arg == IF metadata THEN [type |-> one.type, value |-> one.value]
                             ELSE one.value
                  IN  IF ~rest.ok THEN OscFail
                      ELSE [ok |-> TRUE, args |-> <<arg>> \o rest.args, idx |-> rest.idx]

\* osc.readMessageContents after the address has been read: the type tag string
\* starting with ',' and the arguments; idx is the offset after them
oscMessageOf(address, r) ==
    IF ~r.ok THEN OscFail
    ELSE [ok |-> TRUE, packet |-> Packet(address, r.args), idx |-> r.idx]

oscReadTagged(address, buf, tt, metadata) ==
    IF tt.s = <<>> \/ tt.s[1] # 44 THEN OscFail
    ELSE oscMessageOf(address, oscReadArgs(buf, tt.idx, Tail(tt.s), metadata))

oscReadMessageContents(address, buf, idx, metadata) ==
    oscReadTagged(address, buf, oscReadString(buf, idx), metadata)

\* a bundle osc.readPacket returns: its time tag and the packets inside it
Bundle(timeTag, packets) == [ok |-> TRUE, timeTag |-> timeTag, packets |-> packets]

\* whether a packet is a message (it has an address) and not a bundle
IsMessage(packet) == "address" \in DOMAIN packet

\* osc.readInt32: getInt32 of 4 bytes, big-endian and signed
oscReadInt32(b) ==
    (((IF b[1] >= 128 THEN b[1] - 256 ELSE b[1]) * 256 + b[2]) * 256 + b[3]) * 256 + b[4]

\* offsetState.idx + packetSize for an element that starts at offset idx. The
\* result is only compared with offsets into the data, so a size beyond the
\* data counts as one just beyond it
oscPacketEnd(buf, idx, size) ==
    IF size > Len(buf) + 8 THEN idx + Len(buf) + 8
    ELSE IF size < -(Len(buf) + 8) THEN idx - (Len(buf) + 8)
    ELSE idx + size

\* osc.readPacket(dv, options, offsetState, len) at offset idx: a header that
\* starts with '#' is a bundle, one that starts with '/' a message, anything
\* else throws. osc.readBundleContents reads the time tag and then one size and
\* one packet after the other until the offset reaches len; reading past the
\* end of the data throws.
RECURSIVE oscReadPacketAt(_, _, _, _)
RECURSIVE oscReadBundleElements(_, _, _, _)
\* the packets read so far joined with the rest of the elements
oscJoinElements(first, rest) ==
    IF ~rest.ok THEN OscFail
    ELSE [ok |-> TRUE, packets |-> <<first.packet>> \o rest.packets, idx |-> rest.idx]

oscReadNextElements(first, buf, len, metadata) ==
    IF ~first.ok THEN OscFail
    ELSE oscJoinElements(first, oscReadBundleElements(buf, first.idx, len, metadata))

oscReadBundleElements(buf, idx, len, metadata) ==
    IF idx >= len THEN [ok |-> TRUE, packets |-> <<>>, idx |-> idx]
    ELSE IF idx + 4 > Len(buf) THEN OscFail
    ELSE oscReadNextElements(
             oscReadPacketAt(buf, idx + 4,
                             oscPacketEnd(buf, idx + 4, oscReadInt32(Slice(buf, idx, idx + 4))),
                             metadata),
             buf, len, metadata)

oscBundleOf(timeTag, r) ==
    IF ~r.ok THEN OscFail
    ELSE [ok |-> TRUE, packet |-> Bundle(timeTag, r.packets), idx |-> r.idx]

oscReadBundleContents(buf, idx, len, metadata) ==
    IF idx + 8 > Len(buf) THEN OscFail
    ELSE oscBundleOf(Slice(buf, idx, idx + 8),
                     oscReadBundleElements(buf, idx + 8, len, metadata))

oscReadHeaded(header, buf, len, metadata) ==
    IF header.s = <<>> THEN OscFail
    ELSE IF header.s[1] = 35 THEN oscReadBundleContents(buf, header.idx, len, metadata)
    ELSE IF header.s[1] = SLASH
         THEN oscReadMessageContents(header.s, buf, header.idx, metadata)
    ELSE OscFail

oscReadPacketAt(buf, idx, len, metadata) ==
    oscReadHeaded(oscReadString(buf, idx), buf, len, metadata)

\* osc.readPacket(data, {metadata}) for data that holds a message
oscReadMessage(buf, metadata) ==
    LET r == oscReadPacketAt(buf, 0, Len(buf), metadata)
    IN  IF r.ok /\ IsMessage(r.packet) THEN r.packet ELSE OscFail

\* what a read at an offset returns as a packet: the packet, or the failure
oscPacketOf(r) == IF r.ok THEN r.packet ELSE OscFail

\* osc.readPacket(data, options): a message, or a bundle that is read up to
\* the end of the data
oscReadPacket(buf, metadata) == oscPacketOf(oscReadPacketAt(buf, 0, Len(buf), metadata))

(***************************************************************************)
(* Stream reassembly.                                                      *)
(***************************************************************************)
\* a length that is 0 when the data cannot be read
getCompleteMessageLength_zero(buffer) ==
    IF oscReadPacket(buffer, FALSE).ok THEN Len(oscWriteTyped(oscInferTypes(oscReadPacket(buffer, FALSE))))
    ELSE 0

\* getCompleteMessageLength(buffer): the length of the re-encoded first packet,
\* or buffer.length + 1 when readPacket throws
lengthOfRead(buffer, packet) ==
    IF ~packet.ok THEN Len(buffer) + 1
    ELSE Len(oscWriteTyped(oscInferTypes(packet)))

getCompleteMessageLength(buffer) == lengthOfRead(buffer, oscReadPacket(buffer, FALSE))

\* buffer.indexOf(0): 0-based, -1 when there is none
IndexOfNull(buffer) ==
    IF \E i \in 1..Len(buffer) : buffer[i] = 0
    THEN (CHOOSE i \in 1..Len(buffer) : buffer[i] = 0 /\ \A j \in 1..(i - 1) : buffer[j] # 0) - 1
    ELSE -1

\* /^\/[\x20-\x7e]+$/.test(path)
IsPrintablePath(path) ==
    /\ Len(path) >= 2
    /\ path[1] = SLASH
    /\ \A i \in 2..Len(path) : path[i] \in 32..126

\* a path-only parse that takes the frame to end at the null, without padding
parsePathOnlyOsc_unpadded(buffer) ==
    IF Len(buffer) < 2 \/ buffer[1] # SLASH \/ IndexOfNull(buffer) < 1 THEN NULL
    ELSE [t |-> "pathOnly", path |-> Slice(buffer, 0, IndexOfNull(buffer)),
          byteLength |-> IndexOfNull(buffer) + 1]

\* parsePathOnlyOsc(buffer): {path, byteLength} or null
parsePathOnlyOsc(buffer) ==
    IF Len(buffer) < 2 \/ buffer[1] # SLASH THEN NULL
    ELSE LET nullIdx == IndexOfNull(buffer)
             path == Slice(buffer, 0, nullIdx)
             byteLength == Ceil4(nullIdx + 1)
         IN  IF nullIdx < 1 THEN NULL
             ELSE IF ~IsPrintablePath(path) THEN NULL
             ELSE IF byteLength > Len(buffer) THEN NULL
             ELSE [t |-> "pathOnly", path |-> path, byteLength |-> byteLength]

\* a status label that keeps the blanks around the configured name
StatusOk_untrimmed(cfg, fallback) == [state |-> "ok", message |-> Str(cfg.device_name)]

\* updateStatus('ok', name || fallback)
StatusOk(cfg, fallback) ==
    [state |-> "ok",
     message |-> Str(IF deviceName(cfg) # <<>> THEN deviceName(cfg) ELSE fallback)]

StatusOf(state) == [state |-> state, message |-> NULL]

\* 'Connected'
LABEL_CONNECTED == <<67, 111, 110, 110, 101, 99, 116, 101, 100>>
\* 'Ready'
LABEL_READY == <<82, 101, 97, 100, 121>>

\* the value handleOscMessage stores for a packet: first argument, or ''
packetValue(args) ==
    IF Len(args) > 0
    THEN (IF args[1].type = "T" THEN Bool(TRUE)
          ELSE IF args[1].type = "F" THEN Bool(FALSE)
          ELSE args[1].value)
    ELSE Str(<<>>)

\* a ping test that knows the plain '/ping' only
isPing_plainOnly(cfg, path) == path = <<47, 112, 105, 110, 103>>

\* whether handleOscMessage takes the packet for a ping echo
isPing(cfg, path) ==
    LET pingPath == oscPath(cfg, OSC_PATH_PING)
    IN  path = OSC_PATH_PING \/ (pingPath # NULL /\ path = pingPath.s)

\* handleOscMessage(packet) on h = [status, st, hadSyncMessage, dispatched]:
\* sets the status, stores the value unless the packet is a ping or maps to no
\* variable id; its return value is or-ed into hadSyncMessage
handleOscMessage(cfg, h, packet) ==
    LET variableId == pathToVariableId(cfg, packet.address)
        willStore == variableId # <<>> /\ ~isPing(cfg, packet.address)
    IN  [h EXCEPT !.status = StatusOk(cfg, LABEL_CONNECTED),
                  !.st = IF willStore
                         THEN storeSyncValue(h.st, variableId, packetValue(packet.args))
                         ELSE h.st,
                  !.hadSyncMessage = willStore \/ h.hadSyncMessage,
                  !.dispatched = Append(h.dispatched, packet)]

\* the body of the while loop of parseOscIncoming() on h = [receiveBuffer,
\* status, st, hadSyncMessage, dispatched], one operator per local it computes.
\* a dispatch that also unwraps the bundles inside a bundle
RECURSIVE handleBundle_deep(_, _, _)
handleBundle_deep(cfg, h, packets) ==
    IF packets = <<>> THEN h
    ELSE handleBundle_deep(cfg,
                           IF "address" \in DOMAIN Head(packets)
                           THEN handleOscMessage(cfg, h, Head(packets))
                           ELSE handleBundle_deep(cfg, h, Head(packets).packets),
                           Tail(packets))

\* for (const p of packet.packets) if (p.address) handleOscMessage(p)
RECURSIVE handleBundle(_, _, _)
handleBundle(cfg, h, packets) ==
    IF packets = <<>> THEN h
    ELSE handleBundle(cfg,
                      IF IsMessage(Head(packets)) THEN handleOscMessage(cfg, h, Head(packets))
                      ELSE h,
                      Tail(packets))

\* if (packet) { if (packet.address) handleOscMessage(packet)
\*               else if (packet.packets) ... }
handleIfPacket(cfg, h, packet) ==
    IF ~packet.ok THEN h
    ELSE IF IsMessage(packet) THEN handleOscMessage(cfg, h, packet)
    ELSE handleBundle(cfg, h, packet.packets)

\* if (messageLength > buffer.length) break; otherwise cut the frame off the
\* buffer and dispatch the packet
parseDispatch(cfg, h, messageLength, packet) ==
    IF messageLength > Len(h.receiveBuffer) THEN [break |-> TRUE, h |-> h]
    ELSE [break |-> FALSE,
          h |-> handleIfPacket(cfg,
                    [h EXCEPT !.receiveBuffer = Slice(@, messageLength, Len(@))], packet)]

\* a path-only frame replaces messageLength and packet
parseFallback(cfg, h, length0, read, pathOnly) ==
    IF pathOnly # NULL
    THEN parseDispatch(cfg, h, pathOnly.byteLength, Packet(pathOnly.path, <<>>))
    ELSE parseDispatch(cfg, h, length0, read)

\* if (!packet && buffer.length >= 4) pathOnly = parsePathOnlyOsc(buffer)
parseRead(cfg, h, length0, read) ==
    parseFallback(cfg, h, length0, read,
                  IF ~read.ok /\ Len(h.receiveBuffer) >= 4
                  THEN parsePathOnlyOsc(h.receiveBuffer)
                  ELSE NULL)

\* if (messageLength <= buffer.length) packet = osc.readPacket(slice, {metadata: true})
parseLength(cfg, h, length0) ==
    parseRead(cfg, h, length0,
              IF length0 <= Len(h.receiveBuffer)
              THEN oscReadPacket(Slice(h.receiveBuffer, 0, length0), TRUE)
              ELSE OscFail)

\* one pass of the loop body
parseStep(cfg, h) == parseLength(cfg, h, getCompleteMessageLength(h.receiveBuffer))

\* while (this.receiveBuffer.length > 0) { ... }
RECURSIVE parseLoop(_, _)
parseLoop(cfg, h) ==
    IF Len(h.receiveBuffer) = 0 THEN h
    ELSE LET s == parseStep(cfg, h)
         IN  IF s.break THEN h ELSE parseLoop(cfg, s.h)

(***************************************************************************)
(* Configurations and the environment.                                     *)
(***************************************************************************)
\* s.split(sep)
RECURSIVE Split(_, _)
Split(s, sep) ==
    IF \E i \in 1..Len(s) : s[i] = sep
    THEN LET i == CHOOSE i \in 1..Len(s) : s[i] = sep /\ \A j \in 1..(i - 1) : s[j] # sep
         IN  <<SubSeq(s, 1, i - 1)>> \o Split(SubSeq(s, i + 1, Len(s)), sep)
    ELSE <<s>>

\* /^(\d{1,3}\.){3}\d{1,3}$/.test(host)
isIp(host) ==
    LET parts == Split(host, 46)
    IN  /\ Len(parts) = 4
        /\ \A i \in 1..4 : /\ Len(parts[i]) \in 1..3
                           /\ \A k \in 1..Len(parts[i]) : IsDigit(parts[i][k])

\* '10.0.0.5'
HOST_IP == <<49, 48, 46, 48, 46, 48, 46, 53>>
\* 'dbt.local'
HOST_NAME_A == <<100, 98, 116, 46, 108, 111, 99, 97, 108>>
\* device names 'u' and ' u '
NAME_U == <<117>>
NAME_U_PADDED == <<32, 117, 32>>

Config(host, name, tport, fport) ==
    [host |-> host, device_name |-> name, targetPort |-> tport, feedbackPort |-> fport]

CfgIp == Config(HOST_IP, NAME_U, DEFAULT_TARGET_PORT, DEFAULT_FEEDBACK_PORT)
CfgNameA == Config(HOST_NAME_A, NAME_U_PADDED, DEFAULT_TARGET_PORT, DEFAULT_FEEDBACK_PORT)
CfgNoHost == Config(<<>>, NAME_U, DEFAULT_TARGET_PORT, DEFAULT_FEEDBACK_PORT)
CfgNoName == Config(HOST_IP, <<32>>, DEFAULT_TARGET_PORT, DEFAULT_FEEDBACK_PORT)
CfgNoPort == Config(HOST_IP, NAME_U, DEFAULT_TARGET_PORT, 0)

\* the configurations the host hands to init and configUpdated
Configs == {CfgIp, CfgNameA, CfgNoHost, CfgNoName, CfgNoPort}

\* config.host && config.targetPort && config.feedbackPort && device_name.trim()
configComplete(cfg) ==
    /\ cfg.host # <<>>
    /\ cfg.targetPort # 0
    /\ cfg.feedbackPort # 0
    /\ deviceName(cfg) # <<>>

\* the address a successful lookup of a host name yields: '10.0.0.7' for
\* 'dbt.local', '10.0.0.8' for any other name
DnsAddress(host) ==
    IF host = HOST_NAME_A THEN <<49, 48, 46, 48, 46, 48, 46, 55>>
    ELSE <<49, 48, 46, 48, 46, 48, 46, 56>>

(***************************************************************************)
(* Variable labels.                                                        *)
(***************************************************************************)
\* the words variableIdToName compares the parts of an id with
Word ==
    [ gain |-> <<103, 97, 105, 110>>,
      input |-> <<105, 110, 112, 117, 116>>,
      output |-> <<111, 117, 116, 112, 117, 116>>,
      mute |-> <<109, 117, 116, 101>>,
      trim |-> <<116, 114, 105, 109>>,
      delay |-> <<100, 101, 108, 97, 121>>,
      phase |-> <<112, 104, 97, 115, 101>>,
      eqenable |-> <<101, 113, 101, 110, 97, 98, 108, 101>>,
      comp |-> <<99, 111, 109, 112>>,
      eq |-> <<101, 113>> ]
\* the pieces of the labels ('Analog', 'Dante', 'in', 'out'), their prefixes and
\* separators, and '?' for an id that is no string
Label ==
    [ analog |-> <<65, 110, 97, 108, 111, 103>>,
      dante |-> <<68, 97, 110, 116, 101>>,
      in |-> <<105, 110>>,
      out |-> <<111, 117, 116>>,
      gain |-> <<71, 97, 105, 110, 58, 32>>,
      arrow |-> <<32, 45, 62, 32>>,
      mute |-> <<77, 117, 116, 101, 58, 32>>,
      trim |-> <<84, 114, 105, 109, 58, 32>>,
      delay |-> <<68, 101, 108, 97, 121, 58, 32>>,
      phase |-> <<80, 104, 97, 115, 101, 58, 32>>,
      eq_enable |-> <<69, 81, 32, 101, 110, 97, 98, 108, 101, 58, 32>>,
      comp |-> <<67, 111, 109, 112, 32>>,
      colon |-> <<58, 32>>,
      eq_gain |-> <<69, 81, 32, 103, 97, 105, 110, 58, 32>>,
      pt_open |-> <<32, 40, 112, 116, 32>>,
      pt_close |-> <<41>>,
      unknown |-> <<63>> ]

\* parseInt(s, 10): the leading integer of s, or NaN
parseInt(s) ==
    LET body == TrimStart(s)
        neg == body # <<>> /\ Head(body) = 45
        unsigned == IF body # <<>> /\ Head(body) \in {43, 45} THEN Tail(body) ELSE body
        ds == DigitPrefix(unsigned)
    IN  IF ds = <<>> THEN NaN
        ELSE Num((IF neg THEN -1 ELSE 1) * DigitsValue(ds) * 100)

\* `${num}` for an integer
IntToString(n) == (IF n < 0 THEN <<45>> ELSE <<>>) \o Digits(Abs(n))

\* a label that keeps the channel number of a Dante channel as it is
channelLabel_raw(chNum, type) ==
    (IF DigitsValue(DigitPrefix(chNum)) <= 4 THEN <<65, 110, 97, 108, 111, 103>>
     ELSE <<68, 97, 110, 116, 101>>)
        \o <<32>> \o (IF type = <<105, 110, 112, 117, 116>> THEN <<105, 110>>
                        ELSE <<111, 117, 116>>)
        \o <<32>> \o DigitPrefix(chNum)

\* channelLabel(chNum, type): 'Analog in 2', 'Dante out 1'
channelLabel(chNum, type) ==
    LET parsed == parseInt(chNum)
        n == IF IsNum(parsed) /\ parsed.n # 0 THEN parsed.n \div 100 ELSE 1
        kind == IF n <= 4 THEN Label.analog ELSE Label.dante
        num == IF n <= 4 THEN n ELSE n - 4
        inOut == IF type = Word.input THEN Label.in ELSE Label.out
    IN  kind \o <<32>> \o inOut \o <<32>> \o IntToString(num)

\* c.toUpperCase() for one character
ToUpper(c) == IF c \in 97..122 THEN c - 32 ELSE c

\* \w of a regular expression
IsWordChar(c) == c \in (48..57) \cup (65..90) \cup (97..122) \cup {UNDERSCORE}

\* s.charAt(0).toUpperCase() + s.slice(1)
UpperFirst(s) == IF s = <<>> THEN <<>> ELSE <<ToUpper(Head(s))>> \o Tail(s)

\* s.replace(/_/g, ' ').replace(/\b\w/g, (c) => c.toUpperCase())
TitleCase(s) ==
    LET spaced == [i \in 1..Len(s) |-> IF s[i] = UNDERSCORE THEN 32 ELSE s[i]]
    IN  [i \in 1..Len(spaced) |->
            IF IsWordChar(spaced[i]) /\ (i = 1 \/ ~IsWordChar(spaced[i - 1]))
            THEN ToUpper(spaced[i]) ELSE spaced[i]]

\* whether a JS value is truthy
Truthy(v) ==
    CASE v.t = "number" -> v.n # 0
      [] v.t = "boolean" -> v.b
      [] v.t = "string" -> v.s # <<>>
      [] OTHER -> FALSE

\* the label of the parts of an id, parts[k] being the (k+1)-th element; no
\* statement of the try block throws for a string, so the catch is not taken
nameOfParts(id, parts) ==
    LET n == Len(parts)
        first == parts[1]
        in == Word.input
        out == Word.output
    IN  IF first = Word.gain /\ n >= 4 /\ parts[2] = in THEN
            Label.gain \o channelLabel(parts[3], in) \o Label.arrow \o channelLabel(parts[4], out)
        ELSE IF first = Word.gain /\ n >= 3 /\ parts[2] = out THEN
            Label.gain \o channelLabel(parts[3], out)
        ELSE IF first = Word.mute /\ n >= 3 /\ parts[2] = in THEN
            Label.mute \o channelLabel(parts[3], in)
        ELSE IF first = Word.mute /\ n >= 3 /\ parts[2] = out THEN
            Label.mute \o channelLabel(parts[3], out)
        ELSE IF first = Word.trim /\ n >= 2 THEN
            Label.trim \o channelLabel(parts[2], in)
        ELSE IF first = Word.delay /\ n >= 2 THEN
            Label.delay \o channelLabel(parts[2], out)
        ELSE IF first = Word.phase /\ n >= 3 /\ parts[2] = in THEN
            Label.phase \o channelLabel(parts[3], in)
        ELSE IF first = Word.phase /\ n >= 3 /\ parts[2] = out THEN
            Label.phase \o channelLabel(parts[3], out)
        ELSE IF first = Word.eqenable /\ n >= 3 /\ parts[2] = in THEN
            Label.eq_enable \o channelLabel(parts[3], in)
        ELSE IF first = Word.eqenable /\ n >= 3 /\ parts[2] = out THEN
            Label.eq_enable \o channelLabel(parts[3], out)
        ELSE IF first = Word.comp /\ n >= 4 /\ parts[3] = in THEN
            Label.comp \o UpperFirst(parts[2]) \o Label.colon \o channelLabel(parts[4], in)
        ELSE IF first = Word.comp /\ n >= 4 /\ parts[3] = out THEN
            Label.comp \o UpperFirst(parts[2]) \o Label.colon \o channelLabel(parts[4], out)
        ELSE IF first = Word.eq /\ n >= 4 /\ parts[2] = Word.gain /\ parts[3] = in THEN
            Label.eq_gain \o channelLabel(parts[4], in)
                \o (IF n >= 5 THEN Label.pt_open \o parts[5] \o Label.pt_close ELSE <<>>)
        ELSE IF first = Word.eq /\ n >= 4 /\ parts[2] = Word.gain /\ parts[3] = out THEN
            Label.eq_gain \o channelLabel(parts[4], out)
                \o (IF n >= 5 THEN Label.pt_open \o parts[5] \o Label.pt_close ELSE <<>>)
        ELSE TitleCase(id)

\* variableIdToName(variableId): a value that is no string, or '', is returned
\* as it is when truthy and as '?' otherwise
variableIdToName(variableId) ==
    IF ~IsStr(variableId) \/ variableId.s = <<>>
    THEN (IF Truthy(variableId) THEN variableId ELSE Str(Label.unknown))
    ELSE Str(nameOfParts(variableId.s, Split(variableId.s, UNDERSCORE)))

(***************************************************************************)
(* State.                                                                  *)
(***************************************************************************)
VARIABLES
    pc,                 \* "constructed", "running" (after init), "destroyed"
    config,             \* this.config
    targetHost,         \* this.targetHost: null or the resolved address
    socket,             \* this.socket: null or the open dgram socket
    pingTimer,          \* this.pingTimer
    syncTimer,          \* this.syncTimer
    status,             \* the status last given to updateStatus
    pendingLookups,     \* bag of DNS lookups awaited by init / configUpdated
    syncTimeouts,       \* number of pending setTimeout(() => this.sendSync(), 1000)
    actionsRegistered,  \* whether updateActions() has defined the actions
    receiveBuffer,      \* this.receiveBuffer
    syncState,          \* this.syncState: variable id -> formatted string
    syncVariableDefs,   \* this.syncVariableDefs: the registered variable ids
    savedMatrixGain,    \* this.savedMatrixGain: '<in>_<out>' -> number
    published,          \* definitions and values last given to the host
    last,               \* the handler that ran last: its inputs and outputs
    wire,               \* frames the device has sent, and their bytes that have not arrived yet
    rxLog               \* packets handed to handleOscMessage since the start

vars == <<pc, config, targetHost, socket, pingTimer, syncTimer, status, pendingLookups,
          syncTimeouts, actionsRegistered, receiveBuffer, syncState, syncVariableDefs,
          savedMatrixGain, published, last, wire, rxLog>>

timerVars == <<pingTimer, syncTimer>>
storeVars == <<syncState, syncVariableDefs, savedMatrixGain>>
netVars == <<wire, rxLog>>

EmptyMap == [k \in {} |-> <<>>]

Event(op, opts, sent, dispatched) ==
    [op |-> op, opts |-> opts, sent |-> sent, dispatched |-> dispatched]

NoOpts == [none |-> TRUE]

\* the store as the record the store operators work on
Store == [syncState |-> syncState, syncVariableDefs |-> syncVariableDefs]

\* the constructor
ConstructorState ==
    /\ pc = "constructed"
    /\ config = NULL
    /\ targetHost = NULL
    /\ socket = NULL
    /\ pingTimer = NULL
    /\ syncTimer = NULL
    /\ status = StatusOf("none")
    /\ pendingLookups = EmptyBag
    /\ syncTimeouts = 0
    /\ actionsRegistered = FALSE
    /\ receiveBuffer = <<>>
    /\ syncState = EmptyMap
    /\ syncVariableDefs = <<>>
    /\ savedMatrixGain = EmptyMap
    /\ published = [defs |-> <<>>, values |-> EmptyMap]
    /\ last = Event("constructor", NoOpts, <<>>, <<>>)
    /\ rxLog = <<>>

\* nothing is in flight from the device
NoWire == [sent |-> <<>>, bytes |-> <<>>]

Init == ConstructorState /\ wire = NoWire

(***************************************************************************)
(* Connection handling.                                                    *)
(***************************************************************************)
\* a startConnection() that reports the session ready before the bind completes
startConnection_ready(cfg) ==
    [socket |-> [t |-> "socket", port |-> cfg.feedbackPort, state |-> "binding",
                 timerSyncs |-> 0],
     status |-> [state |-> "ok", message |-> Str(<<82, 101, 97, 100, 121>>)],
     receiveBuffer |-> <<>>]

\* startConnection(): closes the old socket, creates a new one and starts to
\* bind it to config.feedbackPort
startConnection(cfg) ==
    [socket |-> [t |-> "socket", port |-> cfg.feedbackPort, state |-> "binding",
                 timerSyncs |-> 0],
     status |-> StatusOf("connecting"),
     receiveBuffer |-> <<>>]

\* the message socket.send / oscSend hands to the network
Message(host, port, address, args) ==
    [host |-> host, port |-> port, address |-> address, args |-> args]

\* sendSync(): the messages it sends
sendSync(cfg, tHost, sock) ==
    LET path == oscPath(cfg, OSC_PATH_SYNC)
    IN  IF path = NULL \/ tHost = NULL \/ sock = NULL THEN <<>>
        ELSE <<Message(tHost.s, cfg.targetPort, path.s, <<>>)>>

\* sendPing(): the messages it sends; no timer or handler of the module calls it
sendPing(cfg, tHost, sock) ==
    LET path == oscPath(cfg, OSC_PATH_PING)
    IN  IF path = NULL \/ tHost = NULL \/ sock = NULL THEN <<>>
        ELSE <<Message(tHost.s, cfg.targetPort, path.s, <<>>)>>

\* sendOsc(pathWithoutName, args): the messages it sends
sendOsc(cfg, tHost, pathWithoutName, args) ==
    LET path == oscPath(cfg, pathWithoutName)
    IN  IF path = NULL \/ tHost = NULL THEN <<>>
        ELSE <<Message(tHost.s, cfg.targetPort, path.s, args)>>

\* the part of init and configUpdated after the configuration has been checked:
\* connect at once to an IP address, or start a lookup of the host name
connectOrLookup(cfg, fn) ==
    IF isIp(cfg.host)
    THEN LET c == startConnection(cfg)
         IN  /\ targetHost' = Str(cfg.host)
             /\ socket' = c.socket
             /\ status' = c.status
             /\ receiveBuffer' = c.receiveBuffer
             /\ UNCHANGED pendingLookups
    ELSE /\ BagCardinality(pendingLookups) < MaxLookups
         /\ targetHost' = NULL
         /\ socket' = NULL
         /\ status' = StatusOf("connecting")
         /\ pendingLookups' = pendingLookups (+) SetToBag({[host |-> cfg.host, fn |-> fn]})
         /\ UNCHANGED receiveBuffer

\* init(config)
init(cfg) ==
    /\ pc = "constructed"
    /\ pc' = "running"
    /\ config' = cfg
    /\ pingTimer' = NULL
    /\ last' = Event("init", NoOpts, <<>>, <<>>)
    /\ IF ~configComplete(cfg)
       THEN /\ targetHost' = NULL
            /\ socket' = NULL
            /\ status' = StatusOf("bad_config")
            /\ actionsRegistered' = TRUE
            /\ published' = applySyncVariables(published, cfg, Store)
            /\ UNCHANGED <<pendingLookups, receiveBuffer>>
       ELSE /\ connectOrLookup(cfg, "init")
            /\ UNCHANGED <<actionsRegistered, published>>
    /\ UNCHANGED <<syncTimer, syncTimeouts, storeVars, netVars>>

\* configUpdated(config)
configUpdated(cfg) ==
    /\ pc = "running"
    /\ config' = cfg
    /\ pingTimer' = NULL
    /\ syncTimer' = NULL
    /\ syncState' = EmptyMap
    /\ syncVariableDefs' = <<>>
    /\ savedMatrixGain' = EmptyMap
    /\ last' = Event("configUpdated", NoOpts, <<>>, <<>>)
    /\ IF configComplete(cfg)
       THEN connectOrLookup(cfg, "configUpdated")
       ELSE /\ targetHost' = NULL
            /\ socket' = NULL
            /\ status' = StatusOf("bad_config")
            /\ UNCHANGED <<pendingLookups, receiveBuffer>>
    /\ UNCHANGED <<pc, syncTimeouts, actionsRegistered, published, netVars>>

\* the lookup awaited by init or configUpdated resolves: the continuation sets
\* targetHost and calls startConnection() with the configuration of that moment
lookupResolved(l) ==
    /\ BagIn(l, pendingLookups)
    /\ pendingLookups' = pendingLookups (-) SetToBag({l})
    /\ LET c == startConnection(config)
       IN  /\ targetHost' = Str(DnsAddress(l.host))
           /\ socket' = c.socket
           /\ status' = c.status
           /\ receiveBuffer' = c.receiveBuffer
    /\ last' = Event("lookupResolved", NoOpts, <<>>, <<>>)
    /\ UNCHANGED <<pc, config, timerVars, syncTimeouts, actionsRegistered, storeVars,
                   published, netVars>>

\* the lookup is rejected: the catch block of init or configUpdated
lookupFailed(l) ==
    /\ BagIn(l, pendingLookups)
    /\ pendingLookups' = pendingLookups (-) SetToBag({l})
    /\ status' = StatusOf("connection_failure")
    /\ IF l.fn = "init"
       THEN /\ actionsRegistered' = TRUE
            /\ published' = applySyncVariables(published, config, Store)
       ELSE UNCHANGED <<actionsRegistered, published>>
    /\ last' = Event("lookupFailed", NoOpts, <<>>, <<>>)
    /\ UNCHANGED <<pc, config, targetHost, socket, timerVars, syncTimeouts, receiveBuffer,
                   storeVars, netVars>>

\* the callback of socket.bind: the socket listens
bindCallback ==
    /\ socket # NULL
    /\ socket.state = "binding"
    /\ syncTimeouts < MaxTimers
    /\ socket' = [socket EXCEPT !.state = "bound"]
    /\ actionsRegistered' = TRUE
    /\ published' = applySyncVariables(published, config, Store)
    /\ status' = StatusOk(config, LABEL_READY)
    /\ syncTimeouts' = syncTimeouts + 1
    /\ last' = Event("bindCallback", NoOpts, <<>>, <<>>)
    /\ UNCHANGED <<pc, config, targetHost, timerVars, pendingLookups, receiveBuffer,
                   storeVars, netVars>>

\* socket.on('error'): a failed bind, or an error of the bound socket
socketError ==
    /\ socket # NULL
    /\ socket.state \in {"binding", "bound"}
    /\ socket' = [socket EXCEPT !.state = IF @ = "binding" THEN "failed" ELSE @]
    /\ status' = StatusOf("connection_failure")
    /\ last' = Event("socketError", NoOpts, <<>>, <<>>)
    /\ UNCHANGED <<pc, config, targetHost, timerVars, pendingLookups, syncTimeouts,
                   actionsRegistered, receiveBuffer, storeVars, published, netVars>>

\* the timer set by the bind callback fires: sendSync()
syncTimeout ==
    /\ syncTimeouts > 0
    /\ syncTimeouts' = syncTimeouts - 1
    /\ LET sent == sendSync(config, targetHost, socket)
       IN  /\ last' = Event("syncTimeout", NoOpts, sent, <<>>)
           /\ socket' = IF sent = <<>> THEN socket
                        ELSE [socket EXCEPT !.timerSyncs = @ + 1]
    /\ UNCHANGED <<pc, config, targetHost, timerVars, status, pendingLookups,
                   actionsRegistered, receiveBuffer, storeVars, published, netVars>>

\* destroy()
destroy ==
    /\ pc = "running"
    /\ pc' = "destroyed"
    /\ pingTimer' = NULL
    /\ syncTimer' = NULL
    /\ socket' = NULL
    /\ last' = Event("destroy", NoOpts, <<>>, <<>>)
    /\ UNCHANGED <<config, targetHost, status, pendingLookups, syncTimeouts,
                   actionsRegistered, receiveBuffer, storeVars, published, netVars>>

\* socket.on('message') with the datagram msg: status ok, append, parseOscIncoming()
socketMessage(msg) ==
    /\ socket # NULL
    /\ socket.state = "bound"
    /\ \E h \in {parseLoop(config, [receiveBuffer |-> receiveBuffer \o msg,
                                    status |-> StatusOk(config, LABEL_CONNECTED),
                                    st |-> Store,
                                    hadSyncMessage |-> FALSE,
                                    dispatched |-> <<>>])} :
           /\ receiveBuffer' = h.receiveBuffer
           /\ status' = h.status
           /\ syncState' = h.st.syncState
           /\ syncVariableDefs' = h.st.syncVariableDefs
           /\ published' = IF h.hadSyncMessage
                           THEN applySyncVariables(published, config, h.st)
                           ELSE published
           /\ last' = Event("message", NoOpts, <<>>, h.dispatched)
    /\ UNCHANGED <<pc, config, targetHost, socket, timerVars, pendingLookups, syncTimeouts,
                   actionsRegistered, savedMatrixGain>>

(***************************************************************************)
(* Action callbacks (updateActions).                                       *)
(***************************************************************************)
\* '/gain/input/', '/gain/output/', '/mute/input/', '/mute/output/'
PATH_GAIN_INPUT == <<47, 103, 97, 105, 110, 47, 105, 110, 112, 117, 116, 47>>
PATH_GAIN_OUTPUT == <<47, 103, 97, 105, 110, 47, 111, 117, 116, 112, 117, 116, 47>>
PATH_MUTE_INPUT == <<47, 109, 117, 116, 101, 47, 105, 110, 112, 117, 116, 47>>
PATH_MUTE_OUTPUT == <<47, 109, 117, 116, 101, 47, 111, 117, 116, 112, 117, 116, 47>>
\* 'gain_input_', 'gain_output_', 'mute_input_', 'mute_output_'
KEY_GAIN_INPUT == <<103, 97, 105, 110, 95, 105, 110, 112, 117, 116, 95>>
KEY_GAIN_OUTPUT == <<103, 97, 105, 110, 95, 111, 117, 116, 112, 117, 116, 95>>
KEY_MUTE_INPUT == <<109, 117, 116, 101, 95, 105, 110, 112, 117, 116, 95>>
KEY_MUTE_OUTPUT == <<109, 117, 116, 101, 95, 111, 117, 116, 112, 117, 116, 95>>

\* `/gain/input/${inIdx}/${outIdx}` and `gain_input_${inIdx}_${outIdx}`
gainInputPath(inIdx, outIdx) == PATH_GAIN_INPUT \o Digits(inIdx) \o <<SLASH>> \o Digits(outIdx)
gainInputKey(inIdx, outIdx) == KEY_GAIN_INPUT \o Digits(inIdx) \o <<UNDERSCORE>> \o Digits(outIdx)
\* `/gain/output/${outIdx}` and `gain_output_${outIdx}`
gainOutputPath(outIdx) == PATH_GAIN_OUTPUT \o Digits(outIdx)
gainOutputKey(outIdx) == KEY_GAIN_OUTPUT \o Digits(outIdx)
\* `/mute/input/${inIdx}` and `mute_input_${inIdx}`
muteInputPath(inIdx) == PATH_MUTE_INPUT \o Digits(inIdx)
muteInputKey(inIdx) == KEY_MUTE_INPUT \o Digits(inIdx)
\* `/mute/output/${outIdx}` and `mute_output_${outIdx}`
muteOutputPath(outIdx) == PATH_MUTE_OUTPUT \o Digits(outIdx)
muteOutputKey(outIdx) == KEY_MUTE_OUTPUT \o Digits(outIdx)
\* `${inIdx}_${outIdx}`
savedKey(inIdx, outIdx) == Digits(inIdx) \o <<UNDERSCORE>> \o Digits(outIdx)

FloatArg(value) == [type |-> "f", value |-> value]

\* an action callback can run once updateActions() has defined the actions
CanRunAction == pc = "running" /\ actionsRegistered

\* what every gain and mute callback does with the value it computed: sendOsc,
\* storeSyncValue, applySyncVariables (checkFeedbacks changes no state)
sendAndStore(op, opts, path, args, key, value) ==
    LET st == storeSyncValue(Store, key, value)
    IN  /\ syncState' = st.syncState
        /\ syncVariableDefs' = st.syncVariableDefs
        /\ published' = applySyncVariables(published, config, st)
        /\ last' = Event(op, opts, sendOsc(config, targetHost, path, args), <<>>)
        /\ UNCHANGED <<pc, config, targetHost, socket, timerVars, status, pendingLookups,
                       syncTimeouts, actionsRegistered, receiveBuffer, netVars>>

\* refresh_sync
refresh_sync ==
    /\ CanRunAction
    /\ last' = Event("refresh_sync", NoOpts, sendSync(config, targetHost, socket), <<>>)
    /\ UNCHANGED <<pc, config, targetHost, socket, timerVars, status, pendingLookups,
                   syncTimeouts, actionsRegistered, receiveBuffer, storeVars, published,
                   netVars>>

\* the value set_input_gain / set_output_gain send and store: Number(options.gain)
setGainValue(gain) == ToNumber(gain)

\* set_input_gain
set_input_gain(input, output, gain) ==
    /\ CanRunAction
    /\ LET value == setGainValue(gain)
       IN  sendAndStore("set_input_gain", [input |-> input, output |-> output, gain |-> gain],
                        gainInputPath(input, output), <<FloatArg(value)>>,
                        gainInputKey(input, output), value)
    /\ UNCHANGED savedMatrixGain

\* set_output_gain
set_output_gain(output, gain) ==
    /\ CanRunAction
    /\ LET value == setGainValue(gain)
       IN  sendAndStore("set_output_gain", [output |-> output, gain |-> gain],
                        gainOutputPath(output), <<FloatArg(value)>>,
                        gainOutputKey(output), value)
    /\ UNCHANGED savedMatrixGain

\* x || 0 for a number x
OrZero(x) == IF IsNum(x) /\ x.n # 0 THEN x ELSE Num(0)

\* a clamp that forgets the upper bound: Math.max(-120, x)
clampGain_noUpper(x) == [t |-> "number", n |-> IF x < -12000 THEN -12000 ELSE x]

\* Math.max(-120, Math.min(10, x))
clampGain(x) ==
    LET lo == GAIN_MIN_DB * 100
        hi == GAIN_MAX_DB * 100
    IN  Num(IF x < lo THEN lo ELSE IF x > hi THEN hi ELSE x)

\* preset === 'custom' ? Number(step_custom) || 0 : Number(preset) || 0
stepAmount(preset, custom) ==
    IF preset = STEP_PRESET_CUSTOM THEN OrZero(ToNumber(custom))
    ELSE OrZero(ToNumber(Str(preset)))

\* the value step_input_gain / step_output_gain send and store
stepGainValue(syncSt, key, preset, custom) ==
    LET current == OrZero(parseFloat(stored(syncSt, key)))
    IN  clampGain(current.n + stepAmount(preset, custom).n)

\* step_input_gain
step_input_gain(input, output, preset, custom) ==
    /\ CanRunAction
    /\ LET key == gainInputKey(input, output)
           value == stepGainValue(syncState, key, preset, custom)
       IN  sendAndStore("step_input_gain",
                        [input |-> input, output |-> output, step_preset |-> preset,
                         step_custom |-> custom],
                        gainInputPath(input, output), <<FloatArg(value)>>, key, value)
    /\ UNCHANGED savedMatrixGain

\* step_output_gain
step_output_gain(output, preset, custom) ==
    /\ CanRunAction
    /\ LET key == gainOutputKey(output)
           value == stepGainValue(syncState, key, preset, custom)
       IN  sendAndStore("step_output_gain",
                        [output |-> output, step_preset |-> preset, step_custom |-> custom],
                        gainOutputPath(output), <<FloatArg(value)>>, key, value)
    /\ UNCHANGED savedMatrixGain

\* !isNaN(current) && current <= -120
isMutedGain(current) == IsNum(current) /\ current.n <= GAIN_MIN_DB * 100

\* a toggle that restores -120 dB when it has saved no gain
restoreGain_muted(saved, sKey) ==
    IF sKey \in DOMAIN saved THEN [t |-> "number", n |-> saved[sKey]]
    ELSE [t |-> "number", n |-> -12000]

\* the gain the toggle restores: the saved one, or 0
restoreGain(saved, sKey) == IF sKey \in DOMAIN saved THEN Num(saved[sKey]) ELSE Num(0)

\* a toggle that saves 0 whatever the current gain is
gainToSave_zero(current) == 0

\* the gain the toggle saves before it mutes: isNaN(current) ? 0 : current
gainToSave(current) == IF IsNum(current) THEN current.n ELSE 0

\* matrix_point_mute_toggle
matrix_point_mute_toggle(input, output) ==
    /\ CanRunAction
    /\ LET key == gainInputKey(input, output)
           sKey == savedKey(input, output)
           current == parseFloat(stored(syncState, key))
           opts == [input |-> input, output |-> output]
           path == gainInputPath(input, output)
       IN  IF isMutedGain(current)
           THEN LET restore == restoreGain(savedMatrixGain, sKey)
                IN  /\ savedMatrixGain' =
                           [k \in DOMAIN savedMatrixGain \ {sKey} |-> savedMatrixGain[k]]
                    /\ sendAndStore("matrix_point_mute_toggle", opts, path,
                                    <<FloatArg(restore)>>, key, restore)
           ELSE /\ savedMatrixGain' = (sKey :> gainToSave(current)) @@ savedMatrixGain
                /\ sendAndStore("matrix_point_mute_toggle", opts, path,
                                <<FloatArg(DB(GAIN_MIN_DB))>>, key, DB(GAIN_MIN_DB))

\* a strict reading of a stored mute value: v === '1'
isMutedValue_strict(v) == v = [t |-> "string", s |-> <<49>>]

\* the tolerant reading of a stored mute value v:
\* !isNaN(parseFloat(v)) ? num !== 0 : (v === '1' || v === 1 || v === true || v === 'true')
isMutedValue(v) ==
    LET num == parseFloat(v)
    IN  IF IsNum(num) THEN num.n # 0
        ELSE v \in {Str(<<49>>), DB(1), Bool(TRUE), Str(<<116, 114, 117, 101>>)}

\* the mute a set_input_mute / set_output_mute callback sends: options.mute is
\* false, true or 'toggle'
muteToSend(option, v) ==
    IF option = Str(<<116, 111, 103, 103, 108, 101>>) THEN ~isMutedValue(v)
    ELSE option = Bool(TRUE) \/ option = Str(<<116, 114, 117, 101>>)

\* set_input_mute
set_input_mute(input, option) ==
    /\ CanRunAction
    /\ LET key == muteInputKey(input)
           mute == muteToSend(option, stored(syncState, key))
       IN  sendAndStore("set_input_mute", [input |-> input, mute |-> option],
                        muteInputPath(input), <<[type |-> IF mute THEN "T" ELSE "F"]>>,
                        key, IF mute THEN DB(1) ELSE DB(0))
    /\ UNCHANGED savedMatrixGain

\* set_output_mute
set_output_mute(output, option) ==
    /\ CanRunAction
    /\ LET key == muteOutputKey(output)
           mute == muteToSend(option, stored(syncState, key))
       IN  sendAndStore("set_output_mute", [output |-> output, mute |-> option],
                        muteOutputPath(output), <<[type |-> IF mute THEN "T" ELSE "F"]>>,
                        key, IF mute THEN DB(1) ELSE DB(0))
    /\ UNCHANGED savedMatrixGain

(***************************************************************************)
(* Feedbacks (updateFeedbacks).                                            *)
(***************************************************************************)
\* the matrix_point_muted feedback: !isNaN(num) && num <= -120
matrix_point_muted(syncSt, input, output) ==
    isMutedGain(parseFloat(stored(syncSt, gainInputKey(input, output))))

(***************************************************************************)
(* The device side: the frames it puts on the wire.                        *)
(***************************************************************************)
\* '/trim/1/u', '/mute/input/1/u', '/ping/u'
ADDR_TRIM_1_U == <<47, 116, 114, 105, 109, 47, 49, 47, 117>>
ADDR_MUTE_INPUT_1_U == <<47, 109, 117, 116, 101, 47, 105, 110, 112, 117, 116, 47, 49, 47, 117>>
ADDR_PING_U == <<47, 112, 105, 110, 103, 47, 117>>

\* a frame: the packet the device encodes and its bytes
StandardFrame(address, args) ==
    [packet |-> Packet(address, args), encoding |-> "standard",
     bytes |-> oscWritePacket(address, args)]

\* the device's path-only frame: the padded address and nothing else
PathOnlyFrame(address) ==
    [packet |-> Packet(address, <<>>), encoding |-> "pathOnly",
     bytes |-> oscWriteString(address)]

\* four bytes that begin no OSC packet: a type tag string without an address
JunkFrame == [packet |-> OscFail, encoding |-> "junk", bytes |-> <<44, 102, 0, 0>>]

\* the frames the device sends in the reassembly specification
WireFrames ==
    { StandardFrame(ADDR_TRIM_1_U, <<FloatArg(DB(-2))>>),
      StandardFrame(ADDR_MUTE_INPUT_1_U, <<[type |-> "T", value |-> Bool(TRUE)]>>),
      StandardFrame(ADDR_PING_U, <<>>),
      PathOnlyFrame(ADDR_PING_U),
      JunkFrame }

\* all sequences of 1..n frames
RECURSIVE FrameSeqs(_)
FrameSeqs(n) ==
    IF n = 0 THEN {<<>>}
    ELSE LET shorter == FrameSeqs(n - 1)
         IN  shorter \cup {Append(fs, f) : fs \in {s \in shorter : Len(s) = n - 1}, f \in WireFrames}

WireOf(frames) ==
    [sent |-> [i \in 1..Len(frames) |-> [packet |-> frames[i].packet,
                                         encoding |-> frames[i].encoding]],
     bytes |-> Cat([i \in 1..Len(frames) |-> frames[i].bytes])]

\* the device has sent 1..MaxFrames frames; their bytes are on the wire
InitRx == ConstructorState /\ wire \in {WireOf(fs) : fs \in FrameSeqs(MaxFrames) \ {<<>>}}

\* the next n bytes of the wire arrive as one datagram
datagramChunk(n) ==
    /\ n \in 1..Len(wire.bytes)
    /\ socketMessage(SubSeq(wire.bytes, 1, n))
    /\ wire' = [wire EXCEPT !.bytes = SubSeq(wire.bytes, n + 1, Len(wire.bytes))]
    /\ rxLog' = rxLog \o last'.dispatched

NextRx ==
    \/ init(CfgIp)
    \/ bindCallback
    \/ syncTimeout
    \/ \E n \in 1..Len(wire.bytes) : datagramChunk(n)

SpecRx == InitRx /\ [][NextRx]_vars

(***************************************************************************)
(* The session life cycle: every configuration, DNS and bind outcome,      *)
(* socket errors, the delayed sync, destroy, and whole frames of the       *)
(* device arriving one per datagram.                                       *)
(***************************************************************************)
\* frames the device sends while the session runs
DeviceFrames ==
    { PathOnlyFrame(ADDR_PING_U),
      StandardFrame(ADDR_TRIM_1_U, <<FloatArg(DB(-2))>>),
      JunkFrame }

\* one frame arrives as one datagram
deviceDatagram(f) ==
    /\ Len(receiveBuffer) <= MaxBacklog
    /\ socketMessage(f.bytes)
    /\ UNCHANGED netVars

Next ==
    \/ \E cfg \in Configs : init(cfg)
    \/ \E cfg \in Configs : configUpdated(cfg)
    \/ \E l \in BagToSet(pendingLookups) : lookupResolved(l)
    \/ \E l \in BagToSet(pendingLookups) : lookupFailed(l)
    \/ bindCallback
    \/ socketError
    \/ syncTimeout
    \/ destroy
    \/ refresh_sync
    \/ \E f \in DeviceFrames : deviceDatagram(f)

Spec == Init /\ [][Next]_vars

\* the event loop runs every callback that is due: a pending bind completes, a
\* pending timer fires, a pending lookup settles
Fairness ==
    /\ WF_vars(bindCallback)
    /\ WF_vars(syncTimeout)
    /\ WF_vars(\E l \in BagToSet(pendingLookups) : lookupResolved(l) \/ lookupFailed(l))

SpecLive == Init /\ [][Next]_vars /\ Fairness

(***************************************************************************)
(* The crosspoint toggle and the channel mutes on a connected session,     *)
(* with the device reporting values of the same keys.                      *)
(***************************************************************************)
\* the gains the operator asks for in this specification
ToggleGains == {DB(-2)}

\* options.mute of the dropdown: false, true, 'toggle'
MUTE_TOGGLE == Str(<<116, 111, 103, 103, 108, 101>>)
MuteOptions == {Bool(FALSE), Bool(TRUE), MUTE_TOGGLE}

\* '/gain/input/1/1/u'
ADDR_GAIN_INPUT_1_1_U == oscPath(CfgIp, gainInputPath(1, 1)).s

\* the device reports crosspoint 1/1 at -120 dB and input 1 muted as T, 'true',
\* 0.96 and 0.04
OpsFrames ==
    { StandardFrame(ADDR_GAIN_INPUT_1_1_U, <<FloatArg(DB(-120))>>),
      StandardFrame(ADDR_MUTE_INPUT_1_U, <<[type |-> "T", value |-> Bool(TRUE)]>>),
      StandardFrame(ADDR_MUTE_INPUT_1_U, <<[type |-> "s", value |-> Str(<<116, 114, 117, 101>>)]>>),
      StandardFrame(ADDR_MUTE_INPUT_1_U, <<FloatArg(Num(96))>>),
      StandardFrame(ADDR_MUTE_INPUT_1_U, <<FloatArg(Num(4))>>) }

NextOps ==
    \/ init(CfgIp)
    \/ bindCallback
    \/ syncTimeout
    \/ \E g \in ToggleGains : set_input_gain(1, 1, g)
    \/ matrix_point_mute_toggle(1, 1)
    \/ \E m \in MuteOptions : set_input_mute(1, m)
    \/ \E m \in MuteOptions : set_output_mute(1, m)
    \/ \E f \in OpsFrames : deviceDatagram(f)

SpecOps == Init /\ [][NextOps]_vars

(***************************************************************************)
(* Setting and stepping gains on a connected session.                      *)
(***************************************************************************)
\* options.gain: -2 dB, and 20 dB from an expression or a variable
SetGains == {DB(-2), DB(20)}

\* options.step_preset with options.step_custom; the custom amounts are 60 dB,
\* -70 dB and a value that is no number
StepChoicesInput ==
    { [preset |-> STEP_PRESET_UP, custom |-> DB(3)],
      [preset |-> STEP_PRESET_DOWN, custom |-> DB(3)],
      [preset |-> STEP_PRESET_CUSTOM, custom |-> DB(60)] }
StepChoicesOutput ==
    { [preset |-> STEP_PRESET_CUSTOM, custom |-> DB(-70)],
      [preset |-> STEP_PRESET_CUSTOM, custom |-> Undefined] }

NextGain ==
    \/ init(CfgIp)
    \/ bindCallback
    \/ syncTimeout
    \/ \E g \in SetGains : set_input_gain(1, 1, g)
    \/ \E g \in SetGains : set_output_gain(1, g)
    \/ \E c \in StepChoicesInput : step_input_gain(1, 1, c.preset, c.custom)
    \/ \E c \in StepChoicesOutput : step_output_gain(1, c.preset, c.custom)

SpecGain == Init /\ [][NextGain]_vars

(***************************************************************************)
(* Operator actions across the life cycle: the callbacks run on a session  *)
(* that is being configured, reconfigured, resolved or has failed.         *)
(***************************************************************************)
\* the configurations of this specification: a host name with the name ' u ',
\* and a configuration whose device name is blank
SessionConfigs == {CfgNameA, CfgNoName}

NextSession ==
    \/ \E cfg \in SessionConfigs : init(cfg)
    \/ \E cfg \in SessionConfigs : configUpdated(cfg)
    \/ \E l \in BagToSet(pendingLookups) : lookupResolved(l)
    \/ \E l \in BagToSet(pendingLookups) : lookupFailed(l)
    \/ bindCallback
    \/ syncTimeout
    \/ set_input_gain(1, 1, DB(-2))
    \/ step_input_gain(1, 1, STEP_PRESET_CUSTOM, DB(-120))
    \/ matrix_point_mute_toggle(1, 1)
    \/ set_input_mute(1, MUTE_TOGGLE)

SpecSession == Init /\ [][NextSession]_vars

(***************************************************************************)
(* The address mapper on its own: the paths of the gain and mute callbacks *)
(* for every input and output, under several device names.                 *)
(***************************************************************************)
\* device names: 'u', ' u ' and '1'
NAME_1 == <<49>>
AddressNames == {NAME_U, NAME_U_PADDED, NAME_1}

\* the logical paths the gain and mute callbacks build
MutatorPaths ==
    {gainInputPath(i, o) : i \in 1..NUM_INPUTS, o \in 1..NUM_OUTPUTS}
        \cup {gainOutputPath(o) : o \in 1..NUM_OUTPUTS}
        \cup {muteInputPath(i) : i \in 1..NUM_INPUTS}
        \cup {muteOutputPath(o) : o \in 1..NUM_OUTPUTS}

\* the instance holds a configuration with one of the names
InitAddress ==
    /\ pc = "constructed"
    /\ config \in {Config(HOST_IP, name, DEFAULT_TARGET_PORT, DEFAULT_FEEDBACK_PORT) :
                     name \in AddressNames}
    /\ targetHost = NULL
    /\ socket = NULL
    /\ pingTimer = NULL
    /\ syncTimer = NULL
    /\ status = StatusOf("none")
    /\ pendingLookups = EmptyBag
    /\ syncTimeouts = 0
    /\ actionsRegistered = FALSE
    /\ receiveBuffer = <<>>
    /\ syncState = EmptyMap
    /\ syncVariableDefs = <<>>
    /\ savedMatrixGain = EmptyMap
    /\ published = [defs |-> <<>>, values |-> EmptyMap]
    /\ last = Event("constructor", NoOpts, <<>>, <<>>)
    /\ wire = NoWire
    /\ rxLog = <<>>

\* pathToVariableId(path) for an inbound path that belongs to the logical path
\* p: the result is kept in the event
mapInbound(p, path) ==
    /\ last' = Event("pathToVariableId",
                     [logical |-> p, path |-> path,
                      variableId |-> pathToVariableId(config, path)], <<>>, <<>>)
    /\ UNCHANGED <<pc, config, targetHost, socket, timerVars, status, pendingLookups,
                   syncTimeouts, actionsRegistered, receiveBuffer, storeVars, published,
                   netVars>>

\* the device echoes the path oscPath(p) built
mapEcho(p) ==
    /\ oscPath(config, p) # NULL
    /\ mapInbound(p, oscPath(config, p).s)

\* the device reports p without the device name
mapPlain(p) == mapInbound(p, p)

NextAddress ==
    \/ \E p \in MutatorPaths : mapEcho(p)
    \/ \E p \in MutatorPaths : mapPlain(p)

SpecAddress == InitAddress /\ [][NextAddress]_vars

(***************************************************************************)
(* The label functions on their own: every id the callbacks write, ids of  *)
(* the other settings the device reports, and ids that match no rule.      *)
(***************************************************************************)
\* 'trim_1', 'delay_6', 'phase_input_2', 'eqenable_output_7', 'comp_threshold_input_3', 'comp__output_5', 'eq_gain_input_3_2', 'eq_gain_output_8', 'device_name', 'gain', 'gain_input_x_9', 'mute_input', ''
OtherIds ==
    { <<116, 114, 105, 109, 95, 49>>,
      <<100, 101, 108, 97, 121, 95, 54>>,
      <<112, 104, 97, 115, 101, 95, 105, 110, 112, 117, 116, 95, 50>>,
      <<101, 113, 101, 110, 97, 98, 108, 101, 95, 111, 117, 116, 112, 117, 116, 95, 55>>,
      <<99, 111, 109, 112, 95, 116, 104, 114, 101, 115, 104, 111, 108, 100, 95, 105, 110, 112, 117, 116, 95, 51>>,
      <<99, 111, 109, 112, 95, 95, 111, 117, 116, 112, 117, 116, 95, 53>>,
      <<101, 113, 95, 103, 97, 105, 110, 95, 105, 110, 112, 117, 116, 95, 51, 95, 50>>,
      <<101, 113, 95, 103, 97, 105, 110, 95, 111, 117, 116, 112, 117, 116, 95, 56>>,
      <<100, 101, 118, 105, 99, 101, 95, 110, 97, 109, 101>>,
      <<103, 97, 105, 110>>,
      <<103, 97, 105, 110, 95, 105, 110, 112, 117, 116, 95, 120, 95, 57>>,
      <<109, 117, 116, 101, 95, 105, 110, 112, 117, 116>>,
      <<>> }

LabelIds ==
    {gainInputKey(i, o) : i \in 1..NUM_INPUTS, o \in 1..NUM_OUTPUTS}
        \cup {gainOutputKey(o) : o \in 1..NUM_OUTPUTS}
        \cup {muteInputKey(i) : i \in 1..NUM_INPUTS}
        \cup {muteOutputKey(o) : o \in 1..NUM_OUTPUTS}
        \cup OtherIds

\* variableIdToName(id): the result is kept in the event
nameVariable(id) ==
    /\ last' = Event("variableIdToName",
                     [variableId |-> id, name |-> variableIdToName(Str(id))], <<>>, <<>>)
    /\ UNCHANGED <<pc, config, targetHost, socket, timerVars, status, pendingLookups,
                   syncTimeouts, actionsRegistered, receiveBuffer, storeVars, published,
                   netVars>>

\* channelLabel(String(n), type) for a channel n
labelChannel(n, type) ==
    /\ last' = Event("channelLabel",
                     [chNum |-> n, type |-> type, label |-> channelLabel(Digits(n), type)],
                     <<>>, <<>>)
    /\ UNCHANGED <<pc, config, targetHost, socket, timerVars, status, pendingLookups,
                   syncTimeouts, actionsRegistered, receiveBuffer, storeVars, published,
                   netVars>>

NextLabels ==
    \/ \E id \in LabelIds : nameVariable(id)
    \/ \E n \in 1..NUM_INPUTS, type \in {Word.input, Word.output} : labelChannel(n, type)

SpecLabels == Init /\ [][NextLabels]_vars

(***************************************************************************)
(* Claims about the stream reassembly (SpecRx).                            *)
(***************************************************************************)
\* the receive buffer parseOscIncoming starts from in a step that delivers a
\* datagram: the old buffer and the bytes that left the wire
BufferAtCall ==
    receiveBuffer \o SubSeq(wire.bytes, 1, Len(wire.bytes) - Len(wire'.bytes))

DatagramStep == last'.op = "message" /\ Len(wire'.bytes) < Len(wire.bytes)

\* C1: when N standard-encoded frames have arrived completely, however their
\* bytes were split into datagrams, exactly these N packets have been handed
\* to handleOscMessage, in order, each with its address and arguments.
C1_ReassemblyExact ==
    (/\ wire.bytes = <<>>
     /\ \A i \in 1..Len(wire.sent) : wire.sent[i].encoding = "standard")
        => rxLog = [i \in 1..Len(wire.sent) |-> wire.sent[i].packet]

\* the front of the buffer decodes neither as a standard packet nor as a
\* path-only frame
Undecodable(buffer) ==
    /\ buffer # <<>>
    /\ getCompleteMessageLength(buffer) > Len(buffer)
    /\ parsePathOnlyOsc(buffer) = NULL

\* C2: when the buffer parseOscIncoming starts from decodes neither way and its
\* leading byte cannot begin an OSC packet ('/' or '#'), the call leaves the
\* buffer at least one byte shorter.
C2_UnparseableByteDropped ==
    [][(/\ DatagramStep
        /\ Undecodable(BufferAtCall)
        /\ BufferAtCall[1] \notin {SLASH, 35})
           => Len(receiveBuffer') < Len(BufferAtCall)]_vars

(***************************************************************************)
(* Claims about the action callbacks (SpecOps, SpecGain).                  *)
(***************************************************************************)
\* the gain a stored string reads as: parseFloat(syncState[key])
StoredGain(syncSt, key) == parseFloat(stored(syncSt, key))

\* '-120.0'
STR_MINUS_120 == <<45, 49, 50, 48, 46, 48>>
\* '-2.0'
STR_MINUS_2 == <<45, 50, 46, 48>>

\* the bounds of the gain range in hundredths of a dB
InGainRange(n) == GAIN_MIN_DB * 100 <= n /\ n <= GAIN_MAX_DB * 100

\* C3: a matrix_point_mute_toggle on a crosspoint whose stored gain g is above
\* -120 sends and stores -120 and records savedMatrixGain[i_o] = g; on a
\* crosspoint at or below -120 with a saved entry it sends and stores the saved
\* gain and deletes the entry; at or below -120 without a saved entry it
\* sends and stores 0.
C3_CrosspointToggleRoundTrip ==
    [][last'.op = "matrix_point_mute_toggle" =>
        LET key == gainInputKey(last'.opts.input, last'.opts.output)
            sKey == savedKey(last'.opts.input, last'.opts.output)
            g == StoredGain(syncState, key)
        IN  /\ Len(last'.sent) = 1
            /\ (IsNum(g) /\ g.n > GAIN_MIN_DB * 100) =>
                   /\ syncState'[key] = STR_MINUS_120
                   /\ last'.sent[1].args = <<FloatArg(DB(GAIN_MIN_DB))>>
                   /\ sKey \in DOMAIN savedMatrixGain'
                   /\ savedMatrixGain'[sKey] = g.n
            /\ (IsNum(g) /\ g.n <= GAIN_MIN_DB * 100 /\ sKey \in DOMAIN savedMatrixGain) =>
                   /\ StoredGain(syncState', key) = Num(savedMatrixGain[sKey])
                   /\ last'.sent[1].args = <<FloatArg(Num(savedMatrixGain[sKey]))>>
                   /\ sKey \notin DOMAIN savedMatrixGain'
            /\ (IsNum(g) /\ g.n <= GAIN_MIN_DB * 100 /\ sKey \notin DOMAIN savedMatrixGain) =>
                   /\ syncState'[key] = <<48>>
                   /\ last'.sent[1].args = <<FloatArg(Num(0))>>
                   /\ sKey \notin DOMAIN savedMatrixGain']_vars

\* the second toggle of a round trip has run: crosspoint 1/1 is back at -2.0 and
\* its saved entry is gone
C3_RoundTripDone ==
    /\ last.op = "matrix_point_mute_toggle"
    /\ Len(last.sent) = 1
    /\ last.sent[1].args = <<FloatArg(DB(-2))>>
    /\ gainInputKey(1, 1) \in DOMAIN syncState
    /\ syncState[gainInputKey(1, 1)] = STR_MINUS_2
    /\ savedKey(1, 1) \notin DOMAIN savedMatrixGain

\* the key a step or set callback writes
GainKey(ev) ==
    IF ev.op \in {"step_input_gain", "set_input_gain"}
    THEN gainInputKey(ev.opts.input, ev.opts.output)
    ELSE gainOutputKey(ev.opts.output)

\* the signed step of the options, in hundredths: +3 dB, -3 dB, or the custom
\* amount (0 when it is no number)
StepOf(opts) ==
    IF opts.step_preset = STEP_PRESET_UP THEN 300
    ELSE IF opts.step_preset = STEP_PRESET_DOWN THEN -300
    ELSE IF IsNum(opts.step_custom) THEN opts.step_custom.n
    ELSE 0

\* the stored gain of the key, 0 when the key is absent or reads as no number
CurrentOrZero(syncSt, key) ==
    IF IsNum(StoredGain(syncSt, key)) THEN StoredGain(syncSt, key).n ELSE 0

\* clamp(x, -120, 10) in hundredths
Clamped(x) == IF x < -12000 THEN -12000 ELSE IF x > 1000 THEN 1000 ELSE x

\* C4: step_input_gain and step_output_gain send and store
\* clamp(current + step, -120, 10), current being the stored value of the key
\* (0 when absent or unparseable); the value written lies within [-120, 10].
C4_StepGainClamped ==
    [][last'.op \in {"step_input_gain", "step_output_gain"} =>
        LET key == GainKey(last')
            expected == Clamped(CurrentOrZero(syncState, key) + StepOf(last'.opts))
        IN  /\ Len(last'.sent) = 1
            /\ last'.sent[1].args = <<FloatArg(Num(expected))>>
            /\ StoredGain(syncState', key) = Num(expected)
            /\ InGainRange(StoredGain(syncState', key).n)]_vars

\* a -3 dB step has hit the lower bound: crosspoint 1/1 stepped down to -120.0
C4_SteppedToLowerBound ==
    /\ last.op = "step_input_gain"
    /\ last.opts.step_preset = STEP_PRESET_DOWN
    /\ Len(last.sent) = 1
    /\ last.sent[1].args = <<FloatArg(DB(-120))>>
    /\ syncState[gainInputKey(1, 1)] = STR_MINUS_120

\* C5: the value set_input_gain and set_output_gain send and store lies within
\* [-120, 10] for every requested gain.
C5_SetGainClamped ==
    [][last'.op \in {"set_input_gain", "set_output_gain"} =>
        /\ Len(last'.sent) = 1
        /\ IsNum(last'.sent[1].args[1].value)
        /\ InGainRange(last'.sent[1].args[1].value.n)
        /\ IsNum(StoredGain(syncState', GainKey(last')))
        /\ InGainRange(StoredGain(syncState', GainKey(last')).n)]_vars

\* the key a mute callback writes
MuteKey(ev) ==
    IF ev.op = "set_input_mute" THEN muteInputKey(ev.opts.input)
    ELSE muteOutputKey(ev.opts.output)

\* '1', '1.0', 'true' and '0', '0.0'
STR_1 == <<49>>
STR_1_0 == <<49, 46, 48>>
STR_TRUE == <<116, 114, 117, 101>>
STR_0 == <<48>>
STR_0_0 == <<48, 46, 48>>

\* C6: in toggle mode set_input_mute and set_output_mute send F and store "0"
\* when the stored value is "1", "1.0" or "true", and send T and store "1" when
\* it is "0", "0.0" or absent; the raw values 1 and true read as muted, 0 and
\* false as unmuted; in the other modes the requested value is sent and stored
\* whatever the stored value is.
C6_ChannelMuteToggle ==
    [][last'.op \in {"set_input_mute", "set_output_mute"} =>
        LET key == MuteKey(last')
            v == stored(syncState, key)
            option == last'.opts.mute
            readsMuted == v \in {Str(STR_1), Str(STR_1_0), Str(STR_TRUE)}
            readsUnmuted == v = Undefined \/ v \in {Str(STR_0), Str(STR_0_0)}
            muted == /\ last'.sent[1].args = <<[type |-> "T"]>>
                     /\ syncState'[key] = STR_1
            unmuted == /\ last'.sent[1].args = <<[type |-> "F"]>>
                       /\ syncState'[key] = STR_0
        IN  /\ Len(last'.sent) = 1
            /\ (option = MUTE_TOGGLE /\ readsMuted) => unmuted
            /\ (option = MUTE_TOGGLE /\ readsUnmuted) => muted
            /\ option = Bool(TRUE) => muted
            /\ option = Bool(FALSE) => unmuted
            /\ isMutedValue(DB(1)) /\ isMutedValue(Bool(TRUE))
            /\ ~isMutedValue(DB(0)) /\ ~isMutedValue(Bool(FALSE))]_vars

\* a toggle has unmuted input 1
C6_ToggledToUnmuted ==
    /\ last.op = "set_input_mute"
    /\ last.opts.mute = MUTE_TOGGLE
    /\ Len(last.sent) = 1
    /\ last.sent[1].args = <<[type |-> "F"]>>
    /\ syncState[muteInputKey(1)] = STR_0

(***************************************************************************)
(* Claims about the session life cycle (Spec, SpecLive).                   *)
(***************************************************************************)
\* the connection state a status stands for
StatusClass(st) ==
    CASE st.state \in {"none", "bad_config"} -> "unconfigured"
      [] st.state = "connecting" -> "connecting"
      [] st.state = "ok" -> "connected"
      [] st.state = "connection_failure" -> "failed"

\* C7 as stated: the connection state changes only from unconfigured to
\* connecting, from connecting to connected, from connecting to failed on a
\* resolution or bind error, and from any state to connecting on
\* reconfiguration.
C7_OnlyListedTransitions ==
    [][StatusClass(status') # StatusClass(status) =>
        \/ /\ StatusClass(status) = "unconfigured"
           /\ StatusClass(status') = "connecting"
        \/ /\ StatusClass(status) = "connecting"
           /\ StatusClass(status') = "connected"
        \/ /\ StatusClass(status) = "connecting"
           /\ StatusClass(status') = "failed"
           /\ last'.op \in {"lookupFailed", "socketError"}
        \/ /\ StatusClass(status') = "connecting"
           /\ last'.op = "configUpdated"]_vars

\* C7, amended: the connection state changes only in these ways. init takes
\* unconfigured to connecting; configUpdated takes any state to connecting or,
\* with an incomplete configuration, to unconfigured; a resolved lookup takes
\* any state to connecting and a rejected lookup any state to failed, also when
\* the lookup was started before a later reconfiguration or destroy; the bind
\* callback takes connecting or failed to connected; a socket error takes
\* connecting or connected to failed; an inbound datagram takes failed to
\* connected.
C7_StatusTransitions ==
    [][StatusClass(status') # StatusClass(status) =>
        \/ /\ last'.op = "init"
           /\ StatusClass(status) = "unconfigured"
           /\ StatusClass(status') = "connecting"
        \/ /\ last'.op = "configUpdated"
           /\ StatusClass(status') \in {"connecting", "unconfigured"}
        \/ /\ last'.op = "lookupResolved"
           /\ StatusClass(status') = "connecting"
        \/ /\ last'.op = "lookupFailed"
           /\ StatusClass(status') = "failed"
        \/ /\ last'.op = "bindCallback"
           /\ StatusClass(status) \in {"connecting", "failed"}
           /\ StatusClass(status') = "connected"
        \/ /\ last'.op = "socketError"
           /\ StatusClass(status) \in {"connecting", "connected"}
           /\ StatusClass(status') = "failed"
        \/ /\ last'.op = "message"
           /\ StatusClass(status) = "failed"
           /\ StatusClass(status') = "connected"]_vars

\* an error of a listening socket has taken the session to failed
C7_FailedWhileListening ==
    /\ last.op = "socketError"
    /\ socket # NULL
    /\ socket.state = "bound"
    /\ StatusClass(status) = "failed"

\* C8: once a configuration is in place, status connecting or connected implies
\* a complete configuration, and an incomplete configuration implies status
\* bad_config and no socket.
C8_ActiveImpliesConfigured ==
    config # NULL =>
        /\ StatusClass(status) \in {"connecting", "connected"} => configComplete(config)
        /\ ~configComplete(config) => (status.state = "bad_config" /\ socket = NULL)

\* C9: no socket carries more than one sync probe sent by a delayed timer.
C9_OneTimedSyncPerSocket == socket # NULL => socket.timerSyncs <= 1

\* the session is connected: the socket listens and the status is ok
Connected == socket # NULL /\ socket.state = "bound" /\ status.state = "ok"

\* the handler that ran last sent a message to '/ping/<device_name>'
PingSent ==
    \E i \in 1..Len(last.sent) :
        /\ Len(last.sent[i].address) > Len(OSC_PATH_PING)
        /\ SubSeq(last.sent[i].address, 1, Len(OSC_PATH_PING) + 1) = OSC_PATH_PING \o <<SLASH>>

\* C10: from every connected state a ping is eventually sent, unless the
\* connection ends first.
C10_PingEventually == Connected ~> (PingSent \/ ~Connected)

ConfiguredLookupFails ==
    /\ last'.op = "lookupFailed"
    /\ \E l \in BagToSet(pendingLookups) :
           /\ l.host = config.host
           /\ pendingLookups' = pendingLookups (-) SetToBag({l})

\* the session has failed to resolve its host: failed status and no socket
ResolutionFailed ==
    /\ pc = "running"
    /\ status.state = "connection_failure"
    /\ socket = NULL

\* C14: when the lookup of the configured host is rejected, the status becomes
\* connection_failure and no socket is open; from then on the session keeps
\* that status and opens no socket until it is reconfigured or restarted.
C14_ResolutionFailureIsFinal ==
    [][/\ ConfiguredLookupFails =>
              (status'.state = "connection_failure" /\ socket' = NULL)
       /\ ResolutionFailed =>
              \/ last'.op \in {"configUpdated", "destroy"}
              \/ (socket' = NULL /\ status' = status)]_vars

(***************************************************************************)
(* Claims about operator actions across the life cycle (SpecSession).      *)
(***************************************************************************)
\* the callbacks that write a gain or a mute
GainOps == {"set_input_gain", "set_output_gain", "step_input_gain", "step_output_gain",
            "matrix_point_mute_toggle"}
MuteOps == {"set_input_mute", "set_output_mute"}

\* this step opens the socket of a reconfiguration: configUpdated with an IP
\* address, or the continuation of the lookup configUpdated awaited
OpensSocketAfterReconfiguration ==
    /\ socket' # NULL
    /\ socket'.state = "binding"
    /\ \/ last'.op = "configUpdated"
       \/ /\ last'.op = "lookupResolved"
          /\ \E l \in BagToSet(pendingLookups) :
                 /\ l.fn = "configUpdated"
                 /\ pendingLookups' = pendingLookups (-) SetToBag({l})

\* C12: when the new socket is opened after configUpdated, the state store,
\* the variable registration list, the saved matrix gains and the receive
\* buffer are all empty, whatever actions ran and whenever the lookup settled.
C12_ReconnectStartsClean ==
    [][OpensSocketAfterReconfiguration =>
        /\ syncState' = EmptyMap
        /\ syncVariableDefs' = <<>>
        /\ savedMatrixGain' = EmptyMap
        /\ receiveBuffer' = <<>>]_vars

\* the session cannot reach a device: its configuration is bad, or the lookup
\* of its host was rejected
Inert ==
    \/ status.state = "bad_config"
    \/ status.state = "connection_failure" /\ socket = NULL

\* C13: under a bad configuration or after a DNS failure, a mutating action
\* sends no message and leaves the state store, the registered variables, the
\* saved matrix gains and the published variables unchanged.
C13_ActionsInert ==
    [][(Inert /\ last'.op \in GainOps \cup MuteOps) =>
        /\ last'.sent = <<>>
        /\ UNCHANGED <<syncState, syncVariableDefs, savedMatrixGain, published>>]_vars

\* the handlers that send a sync request
SyncOps == {"syncTimeout", "refresh_sync"}

\* the logical path the handler of an event addresses
LogicalPath(ev) ==
    CASE ev.op \in SyncOps -> OSC_PATH_SYNC
      [] ev.op \in {"set_input_gain", "step_input_gain", "matrix_point_mute_toggle"} ->
             gainInputPath(ev.opts.input, ev.opts.output)
      [] ev.op \in {"set_output_gain", "step_output_gain"} -> gainOutputPath(ev.opts.output)
      [] ev.op = "set_input_mute" -> muteInputPath(ev.opts.input)
      [] ev.op = "set_output_mute" -> muteOutputPath(ev.opts.output)

\* C15: every message sent to the device is addressed to
\* <logical path>/<trimmed current device name> and carries no argument (sync)
\* or exactly one typed argument, a float 'f' for a gain and a tag 'T' or 'F'
\* without payload for a mute; nothing is sent while the device name is empty
\* or no target host is resolved.
C15_OutboundShape ==
    \A i \in 1..Len(last.sent) :
        LET m == last.sent[i]
        IN  /\ Trim(config.device_name) # <<>>
            /\ targetHost # NULL
            /\ m.host = targetHost.s
            /\ last.op \in SyncOps \cup GainOps \cup MuteOps
            /\ m.address = LogicalPath(last) \o <<SLASH>> \o Trim(config.device_name)
            /\ last.op \in SyncOps => m.args = <<>>
            /\ last.op \in GainOps =>
                   /\ Len(m.args) = 1
                   /\ DOMAIN m.args[1] = {"type", "value"}
                   /\ m.args[1].type = "f"
            /\ last.op \in MuteOps =>
                   /\ Len(m.args) = 1
                   /\ DOMAIN m.args[1] = {"type"}
                   /\ m.args[1].type \in {"T", "F"}

\* a mute toggle on a session named ' u ' has sent T to '/mute/input/1/u'
C15_MuteSentToTrimmedName ==
    /\ last.op = "set_input_mute"
    /\ config.device_name = NAME_U_PADDED
    /\ Len(last.sent) = 1
    /\ last.sent[1].address = ADDR_MUTE_INPUT_1_U
    /\ last.sent[1].args = <<[type |-> "T"]>>

(***************************************************************************)
(* Claims about the stored values (SpecOps).                               *)
(***************************************************************************)
\* the formatted form of the values written in this specification: true and
\* false, 0 and 1, -2, -120, 0.96 and 0.04, and the string 'true'
FormatTable ==
    { <<Bool(TRUE), STR_1>>, <<Bool(FALSE), STR_0>>,
      <<DB(0), STR_0>>, <<DB(1), STR_1>>,
      <<DB(-2), STR_MINUS_2>>, <<DB(-120), STR_MINUS_120>>,
      <<Num(96), STR_1_0>>, <<Num(4), STR_0_0>>,
      <<Str(STR_TRUE), STR_TRUE>> }

Formatted(v, s) == <<v, s>> \in FormatTable

\* the key and the value an event writes: a callback writes the value it
\* sends (1 or 0 for a mute), a datagram the first argument of its packet
WrittenKey(ev) ==
    CASE ev.op \in {"set_input_gain", "step_input_gain", "matrix_point_mute_toggle"} ->
             gainInputKey(ev.opts.input, ev.opts.output)
      [] ev.op \in {"set_output_gain", "step_output_gain"} -> gainOutputKey(ev.opts.output)
      [] ev.op \in MuteOps -> MuteKey(ev)
      [] ev.op = "message" ->
             IF ev.dispatched[1].address = ADDR_GAIN_INPUT_1_1_U THEN gainInputKey(1, 1)
             ELSE muteInputKey(1)

WrittenValue(ev) ==
    CASE ev.op \in GainOps -> ev.sent[1].args[1].value
      [] ev.op \in MuteOps -> IF ev.sent[1].args[1].type = "T" THEN DB(1) ELSE DB(0)
      [] ev.op = "message" -> ev.dispatched[1].args[1].value

Writes(ev) ==
    \/ ev.op \in GainOps \cup MuteOps
    \/ ev.op = "message" /\ Len(ev.dispatched) = 1

\* every write stores the formatted form of its value under its key and leaves
\* the other keys as they are
StoresFormatted ==
    Writes(last') =>
        /\ WrittenKey(last') \in DOMAIN syncState'
        /\ Formatted(WrittenValue(last'), syncState'[WrittenKey(last')])
        /\ \A k \in DOMAIN syncState \ {WrittenKey(last')} :
               k \in DOMAIN syncState' /\ syncState'[k] = syncState[k]

\* C16 as stated: every stored value is the formatted form of the value last
\* written to its key (true/false as "1"/"0", 0 and 1 as "0"/"1", other
\* numbers with one decimal), and no stored entry reads "0.0".
C16_FormattedNeverZeroPointZero ==
    [][/\ StoresFormatted
       /\ \A k \in DOMAIN syncState' : syncState'[k] # STR_0_0]_vars

\* C16, amended: every stored value is the formatted form of the value last
\* written to its key: true/false as "1"/"0", a number equal to exactly 0 or 1
\* as "0"/"1", every other finite number rounded to one decimal, so that 0.96
\* stores as "1.0" and 0.04 as "0.0"; a string that is no number as it is.
C16_StoredIsFormatted ==
    [][/\ StoresFormatted
       /\ formatSyncValue(Num(-346)) = <<45, 51, 46, 53>>]_vars

\* the device has reported input 1 with the value 0.04: the entry reads "0.0"
C16_StoredZeroPointZero ==
    /\ last.op = "message"
    /\ Len(last.dispatched) = 1
    /\ last.dispatched[1].args = <<FloatArg(Num(4))>>
    /\ syncState[muteInputKey(1)] = STR_0_0

\* C20: last writer wins. Whatever a key held before, after a callback or a
\* device report for that key has been processed the store holds the
\* formatted value of that event, and the variable and its value have been
\* published before any later event is processed.
C20_LastWriterWins ==
    [][Writes(last') =>
        LET k == WrittenKey(last')
        IN  /\ k \in DOMAIN syncState'
            /\ Formatted(WrittenValue(last'), syncState'[k])
            /\ \E i \in 1..Len(published'.defs) : published'.defs[i] = k
            /\ k \in DOMAIN published'.values
            /\ published'.values[k] = syncState'[k]]_vars

\* a toggle has run after the device reported crosspoint 1/1 at -120 dB: with
\* no saved gain it has written 0 over the reported value, and published it
C20_ToggleOverwroteReport ==
    /\ last.op = "matrix_point_mute_toggle"
    /\ last.sent[1].args = <<FloatArg(Num(0))>>
    /\ syncState[gainInputKey(1, 1)] = STR_0
    /\ published.values[gainInputKey(1, 1)] = STR_0

(***************************************************************************)
(* Claims about path-only frames (SpecRx).                                 *)
(***************************************************************************)
\* the buffer has a null at position k (1-based) that ends a path-only frame
\* at its front: '/' and printable characters before it, nulls up to the next
\* multiple of 4, and no type tag string after them
EndsPathOnlyFrame(buffer, k) ==
    /\ k >= 3
    /\ buffer[1] = SLASH
    /\ \A i \in 1..(k - 1) : buffer[i] \in 32..126
    /\ Ceil4(k) <= Len(buffer)
    /\ \A i \in k..Ceil4(k) : buffer[i] = 0
    /\ Ceil4(k) < Len(buffer) => buffer[Ceil4(k) + 1] # 44

PathOnlyAtFront(buffer) == \E k \in 1..Len(buffer) : EndsPathOnlyFrame(buffer, k)

PathOnlyEnd(buffer) == CHOOSE k \in 1..Len(buffer) : EndsPathOnlyFrame(buffer, k)

\* parseOscIncoming on the bytes that follow the frame
ParseOfRest(buffer, n) ==
    parseLoop(config, [receiveBuffer |-> SubSeq(buffer, n + 1, Len(buffer)),
                       status |-> status, st |-> Store, hadSyncMessage |-> FALSE,
                       dispatched |-> <<>>])

\* C18: a path-only frame at the front of the receive buffer is dispatched as
\* {address, args: []}, ceil4(address length + 1) bytes are removed for it, and
\* the bytes after them are parsed as the next frame.
C18_PathOnlyFrameExtracted ==
    [][(DatagramStep /\ PathOnlyAtFront(BufferAtCall)) =>
        LET k == PathOnlyEnd(BufferAtCall)
            rest == ParseOfRest(BufferAtCall, Ceil4(k))
        IN  /\ last'.dispatched # <<>>
            /\ last'.dispatched[1] = [ok |-> TRUE, address |-> SubSeq(BufferAtCall, 1, k - 1),
                                      args |-> <<>>]
            /\ Tail(last'.dispatched) = rest.dispatched
            /\ receiveBuffer' = rest.receiveBuffer]_vars

\* a path-only '/ping/u' and the standard frame after it have arrived: both
\* were dispatched and the buffer is empty
C18_PathOnlyThenStandard ==
    /\ Len(wire.sent) = 2
    /\ wire.sent[1].encoding = "pathOnly"
    /\ wire.sent[2].encoding = "standard"
    /\ wire.bytes = <<>>
    /\ receiveBuffer = <<>>
    /\ rxLog = <<[ok |-> TRUE, address |-> ADDR_PING_U, args |-> <<>>],
                 [ok |-> TRUE, address |-> ADDR_TRIM_1_U, args |-> <<FloatArg(DB(-2))>>]>>

(***************************************************************************)
(* Claims about the address mapper (SpecAddress).                          *)
(***************************************************************************)
\* the identifier of a logical path: the leading slash dropped, every other
\* slash replaced by an underscore
IdentifierOf(p) == [i \in 1..(Len(p) - 1) |-> IF p[i + 1] = 47 THEN 95 ELSE p[i + 1]]

\* C17: for every logical path p of a mutator and every device name, the echo
\* oscPath(p) maps to the identifier of p, the key the mutator writes; and p
\* itself, arriving without the device name, maps to the same identifier with
\* no segment stripped.
C17_AddressRoundTrip ==
    last.op = "pathToVariableId" => last.opts.variableId = IdentifierOf(last.opts.logical)

(***************************************************************************)
(* Claims about the labels (SpecLabels).                                   *)
(***************************************************************************)
\* the label of the partition rule: channels 1-4 are Analog 1-4, channels 5-8
\* are Dante 1-4
PartitionLabel(n, input) ==
    (IF n <= 4 THEN <<65, 110, 97, 108, 111, 103, 32>> ELSE <<68, 97, 110, 116, 101, 32>>)
        \o (IF input THEN <<105, 110, 32>> ELSE <<111, 117, 116, 32>>)
        \o <<48 + (IF n <= 4 THEN n ELSE n - 4)>>

\* 'gain_input_2_5' and 'Gain: Analog in 2 -> Dante out 1'
ID_GAIN_INPUT_2_5 == <<103, 97, 105, 110, 95, 105, 110, 112, 117, 116, 95, 50, 95, 53>>
NAME_GAIN_INPUT_2_5 ==
    <<71, 97, 105, 110, 58, 32, 65, 110, 97, 108, 111, 103, 32, 105, 110, 32, 50, 32, 45, 62, 32, 68, 97, 110, 116, 101, 32, 111, 117, 116, 32, 49>>

\* C19: channelLabel(n, direction) follows the partition rule for n in 1..8;
\* variableIdToName('gain_input_i_o') is 'Gain: ' + the input label of i +
\* ' -> ' + the output label of o; and for every id, matched by a rule or not,
\* variableIdToName returns a string.
C19_LabelsFollowPartition ==
    /\ last.op = "channelLabel" =>
           last.opts.label = PartitionLabel(last.opts.chNum, last.opts.type = Word.input)
    /\ last.op = "variableIdToName" =>
           /\ last.opts.name.t = "string"
           /\ \A i \in 1..8, o \in 1..8 :
                  last.opts.variableId = <<103, 97, 105, 110, 95, 105, 110, 112, 117, 116, 95>> \o <<48 + i, 95, 48 + o>> =>
                      last.opts.name.s = <<71, 97, 105, 110, 58, 32>> \o PartitionLabel(i, TRUE)
                                             \o <<32, 45, 62, 32>> \o PartitionLabel(o, FALSE)
           /\ last.opts.variableId = ID_GAIN_INPUT_2_5 =>
                  last.opts.name.s = NAME_GAIN_INPUT_2_5

\* the crosspoint of input 2 and output 5 has been named
C19_NamedCrosspoint ==
    /\ last.op = "variableIdToName"
    /\ last.opts.variableId = ID_GAIN_INPUT_2_5
    /\ last.opts.name = Str(NAME_GAIN_INPUT_2_5)

(***************************************************************************)
(* Whole frames of the device arriving one per datagram.                   *)
(***************************************************************************)
\* the bytes of a frame the device has sent
frameBytes(f) ==
    CASE f.encoding = "standard" -> oscWritePacket(f.packet.address, f.packet.args)
      [] f.encoding = "pathOnly" -> oscWriteString(f.packet.address)
      [] f.encoding = "bundle" -> oscWriteTyped(f.packet)
      [] OTHER -> JunkFrame.bytes

\* the bytes of the frames from the k-th on
wireFrom(k) == Cat([i \in 1..(Len(wire.sent) - k + 1) |-> frameBytes(wire.sent[k + i - 1])])

\* the next frame of the wire arrives as one datagram
frameDatagram(k) ==
    /\ k \in 1..Len(wire.sent)
    /\ wire.bytes = wireFrom(k)
    /\ datagramChunk(Len(frameBytes(wire.sent[k])))

NextFrames ==
    \/ init(CfgIp)
    \/ bindCallback
    \/ syncTimeout
    \/ \E k \in 1..Len(wire.sent) : frameDatagram(k)

SpecFrames == InitRx /\ [][NextFrames]_vars

(***************************************************************************)
(* Claims about recovery from decode errors (SpecFrames).                  *)
(***************************************************************************)
\* the i-th frame the device sent is a valid frame sent after a frame whose
\* bytes decode as nothing
ValidAfterJunk(i) ==
    /\ wire.sent[i].encoding # "junk"
    /\ \E j \in 1..(i - 1) : wire.sent[j].encoding = "junk"

\* C21: once every frame the device sent has arrived, each in a datagram of
\* its own, and the message handler has returned from the last of them, every
\* valid frame that arrived after a datagram that cannot be parsed has been
\* dispatched to handleOscMessage. No later step of the session dispatches a
\* frame, so a frame that is missing then is never dispatched.
C21_ValidFramesAfterJunkDispatched ==
    wire.bytes = <<>> =>
        \A i \in 1..Len(wire.sent) :
            ValidAfterJunk(i) => \E k \in 1..Len(rxLog) : rxLog[k] = wire.sent[i].packet

(***************************************************************************)
(* Claims about overlapping DNS lookups and destroy (Spec).                *)
(***************************************************************************)
\* the address the session of a configuration talks to: its host when that is
\* an IP address, else the address the lookup of its host yields
AddressOf(cfg) == IF isIp(cfg.host) THEN cfg.host ELSE DnsAddress(cfg.host)

\* no lookup is pending and the session reflects the current configuration:
\* targetHost is the address of its host, the open socket was created for it
SettledOnCurrent ==
    (pc = "running" /\ pendingLookups = EmptyBag) =>
        /\ targetHost # NULL =>
               (configComplete(config) /\ targetHost = Str(AddressOf(config)))
        /\ socket # NULL =>
               (configComplete(config) /\ socket.port = config.feedbackPort)

\* the lookup that resolves in this step was started for another host than the
\* one of the current configuration
SupersededLookupResolves ==
    /\ last'.op = "lookupResolved"
    /\ \E l \in BagToSet(pendingLookups) :
           /\ l.host # config.host
           /\ pendingLookups' = pendingLookups (-) SetToBag({l})

\* C22: however init and configUpdated interleave with the completion of their
\* lookups, once no lookup is pending targetHost is the address of the current
\* configuration's host and the open socket was created for the current
\* configuration; a lookup started for a superseded configuration sets no
\* targetHost and opens no socket.
C22_LatestConfigurationOnly ==
    [][/\ SettledOnCurrent'
       /\ SupersededLookupResolves => UNCHANGED <<targetHost, socket>>]_vars

\* C23: after destroy no socket is open, the status never changes again and no
\* message is sent, also when a lookup started before destroy settles or the
\* delayed sync timer fires afterwards.
C23_DestroyIsFinal ==
    [][pc = "destroyed" =>
        /\ socket' = NULL
        /\ status' = status
        /\ last'.sent = <<>>]_vars

(***************************************************************************)
(* Claims about the crosspoint toggle and the saved gains (SpecOps).       *)
(***************************************************************************)
\* C24: matrix_point_mute_toggle inverts the matrix_point_muted feedback of its
\* crosspoint, also when no gain is stored for it, and every gain held in the
\* saved matrix gains is above -120 dB.
C24_ToggleInvertsMuted ==
    [][/\ last'.op = "matrix_point_mute_toggle" =>
              matrix_point_muted(syncState', last'.opts.input, last'.opts.output)
                  = ~matrix_point_muted(syncState, last'.opts.input, last'.opts.output)
       /\ \A k \in DOMAIN savedMatrixGain' : savedMatrixGain'[k] > GAIN_MIN_DB * 100]_vars

\* the toggle has unmuted a crosspoint the device had reported at -120 dB and
\* for which no gain was saved: it sent 0 dB
C24_UnmutedWithoutSavedGain ==
    /\ last.op = "matrix_point_mute_toggle"
    /\ last.sent # <<>>
    /\ last.sent[1].args[1].value = DB(0)
    /\ ~matrix_point_muted(syncState, 1, 1)

\* C25: the saved matrix gains hold an entry for a crosspoint only while the
\* stored gain of that crosspoint is at or below -120 dB.
C25_SavedOnlyWhileMuted ==
    \A i \in 1..NUM_INPUTS, o \in 1..NUM_OUTPUTS :
        savedKey(i, o) \in DOMAIN savedMatrixGain => matrix_point_muted(syncState, i, o)

(***************************************************************************)
(* Claims about the registration of variables (SpecSession).               *)
(***************************************************************************)
\* the ids of a registration list
RegisteredIds(defs) == {defs[i] : i \in 1..Len(defs)}

\* the keys whose stored value this step changes
ChangedKeys == {k \in DOMAIN syncState : k \notin DOMAIN syncState' \/ syncState'[k] # syncState[k]}

\* C26: the registration list holds no id twice, its ids are the keys of the
\* state store, and it grows only at its end, by an id stored for the first
\* time; a store to a registered id changes the value of that id and nothing
\* else. Only configUpdated empties both.
C26_RegistrationUniqueOrdered ==
    [][/\ \A i, j \in 1..Len(syncVariableDefs') :
              syncVariableDefs'[i] = syncVariableDefs'[j] => i = j
       /\ RegisteredIds(syncVariableDefs') = DOMAIN syncState'
       /\ \/ /\ last'.op = "configUpdated"
             /\ syncVariableDefs' = <<>>
          \/ /\ syncVariableDefs' = syncVariableDefs
             /\ DOMAIN syncState' = DOMAIN syncState
             /\ Cardinality(ChangedKeys) <= 1
          \/ /\ \E id \in DOMAIN syncState' \ DOMAIN syncState :
                    syncVariableDefs' = Append(syncVariableDefs, id)
             /\ ChangedKeys = {}]_vars

\* input 1 was stored first and the crosspoint 1/1 after it; a mute callback
\* has now written input 1 again and the order of the two ids is unchanged
C26_RewroteFirstRegistered ==
    /\ last.op = "set_input_mute"
    /\ syncVariableDefs = <<muteInputKey(1), gainInputKey(1, 1)>>
    /\ syncState[muteInputKey(1)] = STR_0

(***************************************************************************)
(* Inbound frames of every kind on a connected session: ping echoes,       *)
(* reports with and without an argument, a report that maps to no          *)
(* variable, and bundles. Each frame arrives as one datagram.              *)
(***************************************************************************)
\* '/ping/x', '/u'
ADDR_PING_X == <<47, 112, 105, 110, 103, 47, 120>>
ADDR_U == <<47, 117>>

\* the OSC time tag 'immediately'
TIME_TAG_IMMEDIATE == <<0, 0, 0, 0, 0, 0, 0, 1>>

\* a bundle frame of the device
BundleFrame(packets) ==
    [packet |-> Bundle(TIME_TAG_IMMEDIATE, packets), encoding |-> "bundle",
     bytes |-> oscWriteTyped(Bundle(TIME_TAG_IMMEDIATE, packets))]

\* a bundle that holds a ping echo, a bundle of its own, and a report
NestedBundleFrame ==
    BundleFrame(<<Packet(ADDR_PING_U, <<>>),
                  Bundle(TIME_TAG_IMMEDIATE,
                         <<Packet(ADDR_GAIN_INPUT_1_1_U, <<FloatArg(DB(-120))>>)>>),
                  Packet(ADDR_TRIM_1_U, <<FloatArg(Num(4))>>)>>)

InboundFrames ==
    { StandardFrame(OSC_PATH_PING, <<>>),
      PathOnlyFrame(ADDR_PING_U),
      StandardFrame(ADDR_PING_X, <<>>),
      PathOnlyFrame(ADDR_TRIM_1_U),
      StandardFrame(ADDR_MUTE_INPUT_1_U, <<[type |-> "s", value |-> Str(<<116, 114, 117, 101>>)]>>),
      StandardFrame(ADDR_U, <<FloatArg(DB(-2))>>),
      BundleFrame(<<Packet(ADDR_TRIM_1_U, <<FloatArg(DB(-2))>>),
                    Packet(ADDR_MUTE_INPUT_1_U, <<[type |-> "T", value |-> Bool(TRUE)]>>)>>),
      NestedBundleFrame,
      BundleFrame(<<Packet(ADDR_PING_U, <<>>)>>) }

\* all sequences of up to n of these frames
RECURSIVE InboundSeqs(_)
InboundSeqs(n) ==
    IF n = 0 THEN {<<>>}
    ELSE LET shorter == InboundSeqs(n - 1)
         IN  shorter \cup {Append(fs, f) : fs \in {s \in shorter : Len(s) = n - 1},
                                           f \in InboundFrames}

\* the device has sent 1..MaxFrames of these frames
InitInbound ==
    ConstructorState /\ wire \in {WireOf(fs) : fs \in InboundSeqs(MaxFrames) \ {<<>>}}

SpecInbound == InitInbound /\ [][NextFrames]_vars

(***************************************************************************)
(* Claims about the effect of inbound frames (SpecInbound).                *)
(***************************************************************************)
\* the address of a ping echo: '/ping' or '/ping/<deviceName>'
IsPingEcho(address) ==
    \/ address = OSC_PATH_PING
    \/ address = OSC_PATH_PING \o <<SLASH>> \o deviceName(config)

\* the ids under which the messages dispatched in this step are to be stored:
\* those of the messages that are no ping echo and map to a non-empty id
IdsToStore ==
    {pathToVariableId(config, last'.dispatched[i].address) :
         i \in {j \in 1..Len(last'.dispatched) : ~IsPingEcho(last'.dispatched[j].address)}}
        \ {<<>>}

\* C27: a ping echo sets the status to connected and creates, changes and
\* registers no entry of the state store; every other inbound message with a
\* non-empty id stores one entry, under that id.
C27_PingEchoStoresNothing ==
    [][(last'.op = "message" /\ last'.dispatched # <<>>) =>
        /\ status'.state = "ok"
        /\ DOMAIN syncState' = DOMAIN syncState \cup IdsToStore
        /\ RegisteredIds(syncVariableDefs') = RegisteredIds(syncVariableDefs) \cup IdsToStore
        /\ \A k \in DOMAIN syncState \ IdsToStore : syncState'[k] = syncState[k]
        /\ IdsToStore = {} => syncVariableDefs' = syncVariableDefs]_vars

\* the echo '/ping/u' has arrived on a session whose store holds the mute of
\* input 1: the status is ok and the store holds that entry and nothing else
C27_PingEchoAfterReport ==
    /\ last.op = "message"
    /\ last.dispatched = <<Packet(ADDR_PING_U, <<>>)>>
    /\ status.state = "ok"
    /\ DOMAIN syncState = {muteInputKey(1)}
    /\ syncVariableDefs = <<muteInputKey(1)>>

\* this step delivers the k-th frame the device sent
DeliversFrame(k) ==
    /\ wire.bytes = wireFrom(k)
    /\ Len(wire'.bytes) < Len(wire.bytes)

\* C28: a bundle that arrives in a datagram of its own, on an empty receive
\* buffer, is unwrapped one level: the messages directly inside it are
\* dispatched in bundle order, the messages of a bundle inside it are not
\* dispatched, and the variables are published after the last message when at
\* least one message was stored.
C28_BundleUnwrappedOneLevel ==
    [][\A k \in 1..Len(wire.sent) :
           (/\ DeliversFrame(k)
            /\ wire.sent[k].encoding = "bundle"
            /\ receiveBuffer = <<>>) =>
               /\ last'.dispatched = SelectSeq(wire.sent[k].packet.packets, IsMessage)
               /\ published' =
                      IF IdsToStore # {}
                      THEN applySyncVariables(published, config,
                               [syncState |-> syncState',
                                syncVariableDefs |-> syncVariableDefs'])
                      ELSE published]_vars

\* the bundle with a bundle inside has arrived: the echo and the trim report
\* directly inside it were dispatched, the gain report of the inner bundle was
\* not, and the trim is published
C28_InnerBundleSkipped ==
    /\ Len(wire.sent) = 1
    /\ wire.sent[1].packet = NestedBundleFrame.packet
    /\ wire.bytes = <<>>
    /\ rxLog = <<Packet(ADDR_PING_U, <<>>), Packet(ADDR_TRIM_1_U, <<FloatArg(Num(4))>>)>>
    /\ DOMAIN syncState = {<<116, 114, 105, 109, 95, 49>>}
    /\ published.values[<<116, 114, 105, 109, 95, 49>>] = STR_0_0

\* C29: a value that is no number is stored as the string it is; an inbound
\* message that is no ping echo and carries no argument, such as a path-only
\* frame, stores the empty string under its id.
C29_NoArgumentStoresEmpty ==
    [][\A k \in 1..Len(wire.sent) :
           (/\ DeliversFrame(k)
            /\ wire.sent[k].encoding \in {"standard", "pathOnly"}
            /\ receiveBuffer = <<>>
            /\ ~IsPingEcho(wire.sent[k].packet.address)
            /\ pathToVariableId(config, wire.sent[k].packet.address) # <<>>) =>
               LET id == pathToVariableId(config, wire.sent[k].packet.address)
                   args == wire.sent[k].packet.args
               IN  /\ id \in DOMAIN syncState'
                   /\ args = <<>> => syncState'[id] = <<>>
                   /\ (args # <<>> /\ IsStr(args[1].value) /\ ToNumber(args[1].value) = NaN)
                          => syncState'[id] = args[1].value.s]_vars

(***************************************************************************)
(* The reassembly loop of parseOscIncoming, one pass of its body per       *)
(* step. Datagrams cut the device's bytes at any place, so the loop meets  *)
(* whole frames, parts of frames, bundles and bytes that begin no frame.   *)
(***************************************************************************)
\* a bundle that holds one ping echo
PingBundleFrame == BundleFrame(<<Packet(ADDR_PING_U, <<>>)>>)

\* 1..MaxFrames frames of the device, the bundle first, last or absent
LoopSeqs ==
    (FrameSeqs(MaxFrames) \ {<<>>})
        \cup {<<PingBundleFrame>> \o fs : fs \in FrameSeqs(MaxFrames - 1)}
        \cup {fs \o <<PingBundleFrame>> : fs \in FrameSeqs(MaxFrames - 1)}

InitLoop == ConstructorState /\ wire \in {WireOf(fs) : fs \in LoopSeqs}

\* the message handler is inside the while loop of parseOscIncoming
InLoop == last.op = "parseOscIncoming"

\* the loop's view of the instance before a pass
LoopState ==
    [receiveBuffer |-> receiveBuffer, status |-> status, st |-> Store,
     hadSyncMessage |-> last.opts.hadSyncMessage, dispatched |-> last.dispatched]

\* socket.on('message'): the next n bytes of the wire are appended to the
\* receive buffer and the loop is entered
messageArrives(n) ==
    /\ ~InLoop
    /\ socket # NULL
    /\ socket.state = "bound"
    /\ n \in 1..Len(wire.bytes)
    /\ receiveBuffer' = receiveBuffer \o SubSeq(wire.bytes, 1, n)
    /\ status' = StatusOk(config, LABEL_CONNECTED)
    /\ wire' = [wire EXCEPT !.bytes = SubSeq(wire.bytes, n + 1, Len(wire.bytes))]
    /\ last' = Event("parseOscIncoming",
                     [iterations |-> 0, startLength |-> Len(receiveBuffer'),
                      hadSyncMessage |-> FALSE, stopped |-> FALSE], <<>>, <<>>)
    /\ UNCHANGED <<pc, config, targetHost, socket, timerVars, pendingLookups, syncTimeouts,
                   actionsRegistered, storeVars, published, rxLog>>

\* one pass of the loop body: break, or cut a frame off and dispatch it.
\* The pass counter stops one above the number of bytes the call started with
loopIteration ==
    /\ InLoop
    /\ ~last.opts.stopped
    /\ Len(receiveBuffer) > 0
    /\ last.opts.iterations <= last.opts.startLength
    /\ \E s \in {parseStep(config, LoopState)} :
           /\ receiveBuffer' = s.h.receiveBuffer
           /\ status' = s.h.status
           /\ syncState' = s.h.st.syncState
           /\ syncVariableDefs' = s.h.st.syncVariableDefs
           /\ last' = Event("parseOscIncoming",
                            [last.opts EXCEPT !.iterations = @ + 1,
                                              !.hadSyncMessage = s.h.hadSyncMessage,
                                              !.stopped = s.break],
                            <<>>, s.h.dispatched)
    /\ UNCHANGED <<pc, config, targetHost, socket, timerVars, pendingLookups, syncTimeouts,
                   actionsRegistered, savedMatrixGain, published, netVars>>

\* the loop is left, by the break or with an empty buffer:
\* if (hadSyncMessage) applySyncVariables()
loopExit ==
    /\ InLoop
    /\ last.opts.stopped \/ Len(receiveBuffer) = 0
    /\ published' = IF last.opts.hadSyncMessage
                    THEN applySyncVariables(published, config, Store)
                    ELSE published
    /\ rxLog' = rxLog \o last.dispatched
    /\ last' = Event("message", NoOpts, <<>>, last.dispatched)
    /\ UNCHANGED <<pc, config, targetHost, socket, timerVars, pendingLookups, syncTimeouts,
                   actionsRegistered, receiveBuffer, status, storeVars, wire>>

\* no other callback runs while the message handler does
NextLoop ==
    \/ ~InLoop /\ init(CfgIp)
    \/ ~InLoop /\ bindCallback
    \/ ~InLoop /\ syncTimeout
    \/ \E n \in 1..Len(wire.bytes) : messageArrives(n)
    \/ loopIteration
    \/ loopExit

SpecLoop == InitLoop /\ [][NextLoop]_vars

\* the passes, taken one by one, leave what the while loop leaves
PassesFollowParseLoop ==
    [][InLoop /\ InLoop' /\ last'.opts.iterations = last.opts.iterations + 1
       => parseLoop(config, LoopState)
              = IF last'.opts.stopped THEN LoopState
                ELSE parseLoop(config, LoopState')]_vars

\* C30: every pass of the reassembly loop either stops the loop or leaves the
\* receive buffer at least one byte shorter, no pass makes the buffer longer,
\* and a call never makes more passes than it had bytes buffered at its start
C30_LoopTerminates ==
    [][InLoop /\ InLoop' /\ last'.opts.iterations = last.opts.iterations + 1
       => /\ last'.opts.stopped \/ Len(receiveBuffer') < Len(receiveBuffer)
          /\ Len(receiveBuffer') <= Len(receiveBuffer)
          /\ last'.opts.iterations <= last.opts.startLength]_vars

\* a call that cut frames off the buffer in earlier passes and then stopped
\* at bytes it could not read
C30_StoppedAfterPasses ==
    /\ InLoop
    /\ last.opts.stopped
    /\ last.opts.iterations >= 3
    /\ receiveBuffer # <<>>
    /\ Len(receiveBuffer) < last.opts.startLength

=============================================================================
